---------------------------- MODULE PortsProofs -----------------------------
(***************************************************************************)
(* Theorems about Ports, for any number of devices, pairs and calls, when  *)
(* Shutdown is called at most once for a booted device, after its Prepare. *)
(***************************************************************************)
EXTENDS Ports, TLAPS

\* A pair belongs to the device it was allocated for until a Shutdown has given it
\* back.
Owner(d) ==
  /\ prep[d] \in {"ports", "waiting", "done", "again"}
  /\ \A c \in Call : dev[c] = d => at[c] \notin {"remove", "done"}

\* The calls for a device the daemon booted.
Killing(c) == at[c] \in {"kill", "free", "remove", "done"}

\* One such call per device, after Prepare, that leaves no process behind.
Orderly ==
  /\ \A c \in Call : at[c] = "idle" => dev[c] = NoDev
  /\ \A b, c \in Call : Killing(b) /\ Killing(c) /\ dev[b] = dev[c] => b = c
  /\ \A c \in Call : Killing(c) => prep[dev[c]] \in {"done", "again"}
  /\ \A c \in Call : at[c] \in {"free", "remove", "done"} /\ Running(dev[c])
                       => dev[c] \in unkilled
  /\ \A d \in Dev : Running(d) => prep[d] \in {"waiting", "done", "found", "again"}

\* The allocator knows the pairs that have owners, and they have one each.
Owned ==
  /\ \A d \in Dev : Owner(d) => ports[d] \in inUse
  /\ \A d, e \in Dev : Owner(d) /\ Owner(e) /\ ports[d] = ports[e] => d = e

\* The fields keep their types, and the allocator its range, whatever the order
\* in which Prepare, Shutdown and the watchdog run.
THEOREM TypeCorrect == Spec => []TypeOK
<1>1. Init => TypeOK
  BY DEF Init, TypeOK
<1>2. TypeOK /\ [Next]_vars => TypeOK'
  <2> SUFFICES ASSUME TypeOK, [Next]_vars
               PROVE  TypeOK'
    OBVIOUS
  <2> USE DEF TypeOK
  <2>1. ASSUME NEW d \in Dev, Create(d) \/ Allocate(d) \/ AllocateFails(d)
        PROVE  TypeOK'
    BY <2>1 DEF Create, Allocate, AllocateFails
  <2>2. ASSUME NEW d \in Dev, Boot(d) \/ BootFails(d) \/ Booted(d)
        PROVE  TypeOK'
    BY <2>2 DEF Boot, BootFails, Booted
  <2>3. ASSUME NEW d \in Dev, Die(d) \/ Evict(d) \/ Adopt(d)
        PROVE  TypeOK'
    BY <2>3 DEF Die, Evict, Adopt, Running
  <2>4. ASSUME NEW d \in Dev, NEW c \in Call, Shutdown(c, d)
        PROVE  TypeOK'
    BY <2>4 DEF Shutdown, Adopted
  <2>5. ASSUME NEW c \in Call, Kill(c) \/ EmuKill(c)
        PROVE  TypeOK'
    BY <2>5 DEF Kill, EmuKill
  <2>6. ASSUME NEW c \in Call, Free(c) \/ Remove(c)
        PROVE  TypeOK'
    BY <2>6 DEF Free, Remove
  <2>7. CASE UNCHANGED vars
    BY <2>7 DEF vars
  <2> QED
    BY <2>1, <2>2, <2>3, <2>4, <2>5, <2>6, <2>7 DEF Next
<1> QED
  BY <1>1, <1>2, PTL DEF Spec

\* One step keeps calls of Shutdown in order.
LEMMA OrderlyKept ==
  ASSUME Ops \subseteq {"lost"}, TypeOK, Orderly, [Next]_vars
  PROVE  Orderly'
<1> USE PortsAssumption DEF TypeOK, Orderly, Killing, Running
<1>1. ASSUME NEW d \in Dev, Create(d) \/ Allocate(d) \/ AllocateFails(d)
      PROVE  Orderly'
  BY <1>1 DEF Create, Allocate, AllocateFails
<1>2. ASSUME NEW d \in Dev, Boot(d)
      PROVE  Orderly'
  BY <1>2 DEF Boot
<1>3. ASSUME NEW d \in Dev, BootFails(d) \/ Booted(d)
      PROVE  Orderly'
  BY <1>3 DEF BootFails, Booted
<1>4. ASSUME NEW d \in Dev, Die(d) \/ Evict(d) \/ Adopt(d)
      PROVE  Orderly'
  BY <1>4 DEF Die, Evict, Adopt, Running
<1>5. ASSUME NEW d \in Dev, NEW c \in Call, Shutdown(c, d)
      PROVE  Orderly'
  BY <1>5 DEF Shutdown, Adopted
<1>6. ASSUME NEW c \in Call, Kill(c) \/ EmuKill(c)
      PROVE  Orderly'
  BY <1>6 DEF Kill, EmuKill
<1>7. ASSUME NEW c \in Call, Free(c) \/ Remove(c)
      PROVE  Orderly'
  BY <1>7 DEF Free, Remove
<1>8. CASE UNCHANGED vars
  BY <1>8 DEF vars
<1> QED
  BY <1>1, <1>2, <1>3, <1>4, <1>5, <1>6, <1>7, <1>8 DEF Next

\* One step keeps pairs with their owners.
LEMMA OwnedKept ==
  ASSUME Ops \subseteq {"lost"}, TypeOK, Orderly, Owned, [Next]_vars
  PROVE  Owned'
<1> USE PortsAssumption DEF TypeOK, Owned, Owner
<1>1. ASSUME NEW d \in Dev, Create(d) \/ AllocateFails(d) \/ Boot(d) \/ Booted(d)
      PROVE  Owned'
  BY <1>1 DEF Create, AllocateFails, Boot, Booted
<1>2. ASSUME NEW d \in Dev, Allocate(d)
      PROVE  Owned'
  <2>1. PICK p \in Pair \ inUse : /\ inUse' = inUse \cup {p}
                                  /\ ports' = [ports EXCEPT ![d] = p]
    BY <1>2 DEF Allocate
  <2>2. ~Owner(d) /\ \A e \in Dev \ {d} : Owner(e)' = Owner(e)
    BY <1>2 DEF Allocate
  <2> QED
    BY <2>1, <2>2
<1>3. ASSUME NEW d \in Dev, BootFails(d)
      PROVE  Owned'
  <2>1. Owner(d)
    BY <1>3 DEF BootFails, Orderly, Killing
  <2> QED
    BY <1>3, <2>1 DEF BootFails
<1>4. ASSUME NEW d \in Dev, Die(d) \/ Evict(d) \/ Adopt(d)
      PROVE  Owned'
  BY <1>4 DEF Die, Evict, Adopt, Running
<1>5. ASSUME NEW d \in Dev, NEW c \in Call, Shutdown(c, d)
      PROVE  Owned'
  BY <1>5 DEF Shutdown, Adopted, Orderly, Killing
<1>6. ASSUME NEW c \in Call, Kill(c) \/ EmuKill(c) \/ Remove(c)
      PROVE  Owned'
  BY <1>6 DEF Kill, EmuKill, Remove
<1>7. ASSUME NEW c \in Call, Free(c)
      PROVE  Owned'
  <2>1. dev[c] \in Dev /\ Owner(dev[c])
    BY <1>7 DEF Free, Orderly, Killing
  <2> QED
    BY <1>7, <2>1 DEF Free
<1>8. CASE UNCHANGED vars
  BY <1>8 DEF vars
<1> QED
  BY <1>1, <1>2, <1>3, <1>4, <1>5, <1>6, <1>7, <1>8 DEF Next

\* Calls in order, and pairs with one owner each, throughout.
LEMMA Ordered ==
  ASSUME Ops \subseteq {"lost"}
  PROVE  Spec => [](TypeOK /\ Orderly /\ Owned)
<1>1. Init => Orderly /\ Owned
  BY DEF Init, Orderly, Killing, Owned, Owner, Running
<1>2. TypeOK /\ Orderly /\ Owned /\ [Next]_vars => Orderly' /\ Owned'
  BY OrderlyKept, OwnedKept
<1>3. Spec => []TypeOK
  BY TypeCorrect
<1> QED
  BY <1>1, <1>2, <1>3, PTL DEF Spec

\* When Shutdown is called once, for a device that has been prepared, emulators of
\* the daemon never share ports unless a kill of one was refused: even though those
\* that are evicted, and perhaps adopted again, never return their pair, and adb may
\* lose sight of running ones.
THEOREM PairsSafe ==
  ASSUME Ops \subseteq {"lost"}
  PROVE  Spec => []OneEmulatorPerPair
<1>1. TypeOK /\ Orderly /\ Owned => OneEmulatorPerPair
  BY DEF TypeOK, Orderly, Owned, Owner, OneEmulatorPerPair, Own, Running
<1>2. Spec => [](TypeOK /\ Orderly /\ Owned)
  BY Ordered
<1> QED
  BY <1>1, <1>2, PTL

\* And a device that gave its pair back runs no emulator, unless the kill was
\* refused: none is booted behind its back, and the one it had was gone before.
THEOREM ShutdownStays ==
  ASSUME Ops \subseteq {"lost"}
  PROVE  Spec => []ShutdownIsFinal
<1>1. TypeOK /\ Orderly => ShutdownIsFinal
  BY DEF TypeOK, Orderly, ShutdownIsFinal, Own, Running
<1>2. Spec => [](TypeOK /\ Orderly /\ Owned)
  BY Ordered
<1> QED
  BY <1>1, <1>2, PTL
=============================================================================
