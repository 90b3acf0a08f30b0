-------------------------- MODULE EventRegistryProofs --------------------------
(***************************************************************************)
(* Theorems about EventRegistry, for any number of callers, events,        *)
(* registrations and packets, and any width of the handler ids.            *)
(*                                                                         *)
(* The properties relate what a task ran to what was registered; in        *)
(* between stand the entries, which a dispatch clones and which on() and   *)
(* off() go on changing.  Shape says how entries, registrations, calls     *)
(* and packets belong together; SilentInv and StableInv say of every       *)
(* entry in reach of a dispatch, or already cloned by one, which of its    *)
(* handlers may and which must be there.                                   *)
(***************************************************************************)
EXTENDS EventRegistry, TLAPS

\* An entry belongs to the event it is registered under.
EntriesInv ==
  \A e \in Events : entries[e] # NoEntry => entries[e] <= ons /\ reg[entries[e]].event = e

\* The handlers of an entry have its event and its type.
HandlersInv ==
  \A k \in Regs : \A h \in handlers[k] :
    k <= ons /\ h <= ons /\ reg[h].event = reg[k].event /\ reg[h].type = reg[k].type

\* Ids are given in turn, from a counter that wraps.
RegsInv ==
  /\ \A k \in Regs : k <= ons => reg[k].event \in Events /\ reg[k].id = (k - 1) % IdSpace
  /\ \A k \in live : k <= ons
  /\ \A p \in Packets : owed[p] \subseteq live

\* A caller that holds the read lock has found an entry, which nobody takes
\* away until it lets go.
CallsInv ==
  \A u \in Callers :
    /\ call[u].pc # "idle" => call[u].event \in Events
    /\ call[u].pc = "is_empty" => entries[call[u].event] # NoEntry

\* A packet's task has cloned an entry; nothing is known of later packets.
PacketsInv ==
  \A p \in Packets :
    /\ p > sent => packet[p].pc = "none" /\ ran[p] = {}
    /\ packet[p].pc = "task" => packet[p].entry <= ons

Shape == EntriesInv /\ HandlersInv /\ RegsInv /\ CallsInv /\ PacketsInv

\* The handlers a dispatch can reach are live ...
SilentEntries == \A e \in Events : entries[e] # NoEntry => handlers[entries[e]] \subseteq live

\* ... and those a task will find are, or were when its packet was dispatched.
Due(h, p) == h \in live \/ p <= removedAt[h]
SilentTasks ==
  \A p \in Packets : packet[p].pc = "task" => \A h \in handlers[packet[p].entry] : Due(h, p)

SilentInv == SilentEntries /\ SilentTasks /\ RemovedHandlersSilent

\* A live registration whose id was not given again is where a dispatch looks
\* for it ...
StableEntries ==
  \A k \in live : ~ Reused(k) =>
    entries[reg[k].event] # NoEntry /\ k \in handlers[entries[reg[k].event]]

\* ... and where a task that owes it a run will look.
StableTasks ==
  \A p \in Packets : packet[p].pc = "task" =>
    \A k \in owed[p] : ~ Reused(k) => k \in handlers[packet[p].entry]

StableInv == StableEntries /\ StableTasks /\ StableHandlersRun

-----------------------------------------------------------------------------
(***************************************************************************)
(* The counter.                                                            *)
(***************************************************************************)
\* Division with remainder, for a divisor that is not a literal.
LEMMA DivMod ==
  ASSUME NEW n \in Nat \ {0}, NEW a \in Nat
  PROVE  a = n * (a \div n) + (a % n) /\ a \div n \in Nat /\ a % n \in 0..(n - 1)
OBVIOUS

LEMMA MultiplesApart ==
  ASSUME NEW n \in Nat \ {0}, NEW q \in Nat, NEW r \in Nat, n * q < n * r
  PROVE  n * q + n <= n * r
<1>1. q < r
  OBVIOUS
<1>2. PICK d \in Nat : r = q + 1 + d
  BY <1>1
<1>3. n * r = n * q + n + n * d
  BY <1>2
<1>4. n * q \in Nat /\ n * r \in Nat /\ n * d \in Nat
  OBVIOUS
<1> QED  BY <1>3, <1>4

\* Two numbers with one remainder are at least the divisor apart: a handler
\* id comes again only after the counter went all the way round.
LEMMA SameRemainderApart ==
  ASSUME NEW n \in Nat \ {0}, NEW a \in Nat, NEW b \in Nat, a < b, a % n = b % n
  PROVE  a + n <= b
<1> DEFINE q == a \div n
           r == b \div n
<1>1. q \in Nat /\ r \in Nat
  BY DivMod
<1>2. a = n * q + (a % n) /\ b = n * r + (b % n) /\ a % n \in Nat
  BY DivMod
<1> HIDE DEF q, r
<1>3. n * q \in Nat /\ n * r \in Nat
  BY <1>1
<1>4. n * q < n * r
  BY <1>2, <1>3
<1>5. n * q + n <= n * r
  BY <1>1, <1>4, MultiplesApart
<1> QED  BY <1>2, <1>3, <1>5

-----------------------------------------------------------------------------
USE DEF regVars, packetVars

LEMMA NextId == ASSUME NEW n \in Nat PROVE n % IdSpace \in Ids
BY SizesAssumption, DivMod DEF Ids

\* A task has cloned an entry: without one a dispatch starts no task.
TasksHaveEntries == \A p \in Packets : packet[p].pc = "task" => packet[p].entry # NoEntry

\* Every step keeps the types; on() gives an id of the counter's range.
LEMMA TypeStep == TypeOK /\ TasksHaveEntries /\ [Next]_vars => TypeOK' /\ TasksHaveEntries'
<1> SUFFICES ASSUME TypeOK, TasksHaveEntries, [Next]_vars PROVE TypeOK' /\ TasksHaveEntries'
  OBVIOUS
<1>1. ASSUME NEW e \in Events, NEW t \in Types, On(e, t) PROVE TypeOK' /\ TasksHaveEntries'
  <2>1. ons \in 0..MaxOns /\ ons < MaxOns
    BY <1>1 DEF On, TypeOK
  <2>2. ons + 1 \in Regs /\ ons + 1 \in 0..MaxOns /\ ons \in Nat
    BY <2>1, SizesAssumption DEF Regs
  <2>3. ons % IdSpace \in Ids
    BY <2>2, NextId
  <2>4. reg' = [reg EXCEPT ![ons + 1] = [event |-> e, type |-> t, id |-> ons % IdSpace]]
    BY <1>1 DEF On
  <2>5. reg' \in [Regs -> [event : Events \cup {"none"}, type : Types, id : Ids]]
    BY <2>3, <2>4 DEF TypeOK
  <2>6. live' \subseteq Regs /\ ons' \in 0..MaxOns
    BY <1>1, <2>2 DEF On, TypeOK
  <2>7. entries' \in [Events -> Regs \cup {NoEntry}] /\ handlers' \in [Regs -> SUBSET Regs]
    BY <1>1, <2>2 DEF On, TypeOK
  <2> QED  BY <1>1, <2>5, <2>6, <2>7 DEF On, TypeOK, TasksHaveEntries
<1>2. ASSUME NEW gone, Forget(gone)
      PROVE  /\ live' \subseteq Regs /\ removedAt' \in [Regs -> 0..MaxPackets]
             /\ owed' \in [Packets -> SUBSET Regs]
  BY <1>2 DEF Forget, TypeOK
<1>3. ASSUME NEW e \in Events, Off(e) PROVE TypeOK' /\ TasksHaveEntries'
  BY <1>2, <1>3 DEF Off, TypeOK, TasksHaveEntries
<1>4. ASSUME NEW u \in Callers, NEW e \in Events, NEW id \in Ids, OffByHandlerId(u, e, id)
      PROVE  TypeOK' /\ TasksHaveEntries'
  BY <1>2, <1>4 DEF OffByHandlerId, TypeOK, TasksHaveEntries
<1>5. ASSUME NEW u \in Callers, OffIsEmpty(u) \/ OffRemoveIfEmpty(u)
      PROVE  TypeOK' /\ TasksHaveEntries'
  <2> DEFINE Calls == [pc : {"idle", "is_empty", "remove_if"}, event : Events \cup {"none"},
                       id : Ids]
  <2>1. Idle \in Calls
    BY SizesAssumption DEF Ids, Idle
  <2>2. call[u] \in Calls
    BY DEF TypeOK
  <2>3. [call[u] EXCEPT !.pc = "remove_if"] \in Calls
    BY <2>2
  <2> HIDE DEF Calls
  <2>4. call \in [Callers -> Calls]
    BY DEF TypeOK, Calls
  <2>5. call' \in [Callers -> Calls]
    BY <1>5, <2>1, <2>3, <2>4 DEF OffIsEmpty, OffRemoveIfEmpty
  <2>6. entries' \in [Events -> Regs \cup {NoEntry}]
    BY <1>5 DEF OffIsEmpty, OffRemoveIfEmpty, OffOnly, TypeOK
  <2> QED
    BY <1>5, <2>5, <2>6 DEF OffIsEmpty, OffRemoveIfEmpty, OffOnly, TypeOK, TasksHaveEntries, Calls
<1>6. ASSUME NEW e \in Events, NEW data \in Types \cup {NoData}, Dispatch(e, data)
      PROVE  TypeOK' /\ TasksHaveEntries'
  <2>1. sent \in 0..MaxPackets /\ sent < MaxPackets
    BY <1>6 DEF Dispatch, TypeOK
  <2>2. sent + 1 \in Packets /\ sent + 1 \in 0..MaxPackets
    BY <2>1, SizesAssumption DEF Packets
  <2>3. packet' \in [Packets -> [pc : {"none", "task", "done"}, entry : Regs \cup {NoEntry},
                                 data : Types \cup {NoData}]] /\ TasksHaveEntries'
    BY <1>6, <2>2 DEF Dispatch, TypeOK, TasksHaveEntries
  <2>4. owed' \in [Packets -> SUBSET Regs]
    BY <1>6, <2>2 DEF Dispatch, TypeOK
  <2> QED  BY <1>6, <2>2, <2>3, <2>4 DEF Dispatch, TypeOK
<1>7. ASSUME NEW p \in Packets, RunTask(p) PROVE TypeOK' /\ TasksHaveEntries'
  <2>1. packet[p].entry \in Regs
    BY <1>7 DEF RunTask, TypeOK, TasksHaveEntries
  <2>2. ran' \in [Packets -> SUBSET Regs]
    BY <1>7, <2>1 DEF RunTask, TypeOK
  <2> QED  BY <1>7, <2>2 DEF RunTask, TypeOK, TasksHaveEntries
<1>8. CASE UNCHANGED vars
  BY <1>8 DEF vars, TypeOK, TasksHaveEntries
<1> QED  BY <1>1, <1>3, <1>4, <1>5, <1>6, <1>7, <1>8 DEF Next

LEMMA TypesCorrect == Spec => [](TypeOK /\ TasksHaveEntries)
<1>1. 0 \in Ids /\ 0 \in 0..MaxOns /\ 0 \in 0..MaxPackets
  BY SizesAssumption DEF Ids
<1>2. Init => TypeOK /\ TasksHaveEntries
  BY <1>1, TypesAssumption DEF Init, TypeOK, TasksHaveEntries, Idle, NoPacket
<1> QED  BY <1>2, TypeStep, PTL DEF Spec

\* The types hold in every state; the handler ids stay within the counter's
\* range, and a task finds the entry its dispatch cloned.
THEOREM TypeCorrect == Spec => []TypeOK
BY TypesCorrect, PTL

-----------------------------------------------------------------------------
(***************************************************************************)
(* The shape.                                                              *)
(***************************************************************************)
\* on() writes the next registration and no other.
LEMMA OnFacts ==
  ASSUME TypeOK, NEW e \in Events, NEW t \in Types, On(e, t)
  PROVE  /\ ons + 1 \in Regs /\ ons' = ons + 1 /\ ons \in Nat
         /\ reg'[ons + 1].event = e /\ reg'[ons + 1].type = t
         /\ reg'[ons + 1].id = ons % IdSpace
         /\ \A h \in Regs : h # ons + 1 => reg'[h] = reg[h]
         /\ \A h \in Regs : h <= ons' <=> h <= ons \/ h = ons + 1
         /\ ~ (ons + 1 <= ons) /\ NoEntry \notin Regs
<1>1. ons \in 0..MaxOns /\ ons < MaxOns /\ ons' = ons + 1
  BY DEF On, TypeOK
<1>2. ons + 1 \in Regs /\ ons \in Nat /\ NoEntry \notin Regs
  BY <1>1, SizesAssumption DEF Regs, NoEntry
<1>3. \A h \in Regs : h <= ons' <=> h <= ons \/ h = ons + 1
  BY <1>1, <1>2 DEF Regs
<1>4. reg' = [reg EXCEPT ![ons + 1] = [event |-> e, type |-> t, id |-> ons % IdSpace]]
  BY DEF On
<1>5. reg \in [Regs -> [event : Events \cup {"none"}, type : Types, id : Ids]]
  BY DEF TypeOK
<1>6. ~ (ons + 1 <= ons)
  BY <1>2
<1>7. reg'[ons + 1] = [event |-> e, type |-> t, id |-> ons % IdSpace]
  BY <1>2, <1>4, <1>5
<1>8. \A h \in Regs : h # ons + 1 => reg'[h] = reg[h]
  BY <1>4, <1>5
<1> QED  BY <1>1, <1>2, <1>3, <1>6, <1>7, <1>8

\* The entry on() puts its handler into, and the handlers that share its id.
EntryOf(e) == IF entries[e] = NoEntry THEN ons + 1 ELSE entries[e]
SameId(e) == {h \in handlers[EntryOf(e)] : reg[h].id = ons % IdSpace}

LEMMA OnEntry ==
  ASSUME TypeOK, Shape, NEW e \in Events, NEW t \in Types, On(e, t)
  PROVE  /\ EntryOf(e) \in Regs
         /\ entries' = [entries EXCEPT ![e] = EntryOf(e)]
         /\ handlers' = [handlers EXCEPT ![EntryOf(e)] = (@ \ SameId(e)) \cup {ons + 1}]
         /\ reg'[EntryOf(e)].event = e /\ reg'[EntryOf(e)].type = t
         /\ EntryOf(e) <= ons \/ EntryOf(e) = ons + 1
         /\ \A h \in handlers[EntryOf(e)] : EntryOf(e) <= ons /\ EntryOf(e) = entries[e]
<1>1. EntryOf(e) \in Regs
  BY OnFacts DEF EntryOf, TypeOK
<1>2. /\ entries' = [entries EXCEPT ![e] = EntryOf(e)]
      /\ handlers' = [handlers EXCEPT ![EntryOf(e)] = (@ \ SameId(e)) \cup {ons + 1}]
  BY DEF On, EntryOf, SameId
<1>3. CASE entries[e] = NoEntry
  <2>1. EntryOf(e) = ons + 1
    BY <1>3 DEF EntryOf
  <2>2. handlers[ons + 1] = {}
    BY OnFacts DEF Shape, HandlersInv, TypeOK
  <2> QED  BY <1>1, <1>2, <2>1, <2>2, OnFacts
<1>4. CASE entries[e] # NoEntry
  <2>1. EntryOf(e) = entries[e] /\ entries[e] <= ons /\ reg[entries[e]].event = e
    BY <1>4 DEF EntryOf, Shape, EntriesInv
  <2>2. reg[entries[e]].type = t
    BY <1>4 DEF On
  <2>3. reg'[entries[e]] = reg[entries[e]]
    BY <1>1, <2>1, OnFacts
  <2> QED  BY <1>1, <1>2, <2>1, <2>2, <2>3
<1> QED  BY <1>3, <1>4

\* Two events never share an entry.
LEMMA OwnEntry ==
  ASSUME Shape, NEW e \in Events, NEW f \in Events, entries[e] # NoEntry, entries[f] = entries[e]
  PROVE  e = f
BY DEF Shape, EntriesInv

LEMMA ShapeOn ==
  ASSUME TypeOK, TasksHaveEntries, Shape, NEW e \in Events, NEW t \in Types, On(e, t)
  PROVE  Shape'
<1>1. EntriesInv'
  <2> SUFFICES ASSUME NEW f \in Events, entries'[f] # NoEntry
               PROVE  entries'[f] <= ons' /\ reg'[entries'[f]].event = f
    BY DEF EntriesInv
  <2>1. CASE f = e
    <3>1. entries'[f] = EntryOf(e)
      BY <2>1, OnEntry DEF TypeOK
    <3> QED  BY <2>1, <3>1, OnFacts, OnEntry
  <2>2. CASE f # e
    <3>1. entries'[f] = entries[f]
      BY <2>2, OnEntry DEF TypeOK
    <3>2. entries[f] <= ons /\ reg[entries[f]].event = f /\ entries[f] \in Regs
      BY <3>1 DEF Shape, EntriesInv, TypeOK
    <3> QED  BY <3>1, <3>2, OnFacts
  <2> QED  BY <2>1, <2>2
<1>2. HandlersInv'
  <2> SUFFICES ASSUME NEW k \in Regs, NEW h \in handlers'[k]
               PROVE  k <= ons' /\ h <= ons' /\ reg'[h].event = reg'[k].event
                      /\ reg'[h].type = reg'[k].type
    BY DEF HandlersInv
  <2>1. CASE h = ons + 1
    <3>1. h \notin handlers[k]
      BY <2>1, OnFacts DEF Shape, HandlersInv
    <3>2. k = EntryOf(e)
      BY <3>1, OnEntry DEF TypeOK
    <3> QED  BY <2>1, <3>2, OnFacts, OnEntry
  <2>2. CASE h # ons + 1
    <3>1. h \in handlers[k] /\ h \in Regs
      BY <2>2, OnEntry DEF TypeOK
    <3>2. /\ k <= ons /\ h <= ons /\ reg[h].event = reg[k].event /\ reg[h].type = reg[k].type
      BY <3>1 DEF Shape, HandlersInv
    <3> QED  BY <2>2, <3>1, <3>2, OnFacts
  <2> QED  BY <2>1, <2>2
<1>3. RegsInv'
  <2>1. \A k \in Regs : k <= ons' => reg'[k].event \in Events /\ reg'[k].id = (k - 1) % IdSpace
    <3> SUFFICES ASSUME NEW k \in Regs, k <= ons'
                 PROVE  reg'[k].event \in Events /\ reg'[k].id = (k - 1) % IdSpace
      OBVIOUS
    <3>1. CASE k = ons + 1
      <4>1. k - 1 = ons
        BY <3>1, OnFacts
      <4> QED  BY <3>1, <4>1, OnFacts
    <3>2. CASE k # ons + 1
      <4>1. reg'[k] = reg[k] /\ k <= ons
        BY <3>2, OnFacts
      <4> QED  BY <4>1 DEF Shape, RegsInv
    <3> QED  BY <3>1, <3>2
  <2>2. \A k \in live' : k <= ons'
    <3>1. live' = live \cup {ons + 1} /\ live \subseteq Regs
      BY DEF On, TypeOK
    <3> QED  BY <3>1, OnFacts DEF Shape, RegsInv
  <2>3. \A p \in Packets : owed'[p] \subseteq live'
    BY DEF On, Shape, RegsInv
  <2> QED  BY <2>1, <2>2, <2>3 DEF RegsInv
<1>4. CallsInv'
  BY OnFacts, OnEntry DEF On, Shape, CallsInv, TypeOK
<1>5. PacketsInv'
  BY OnFacts DEF On, Shape, PacketsInv, TasksHaveEntries, TypeOK
<1> QED  BY <1>1, <1>2, <1>3, <1>4, <1>5 DEF Shape

\* A removal takes registrations away from what is live and what is owed.
LEMMA ShapeForget ==
  ASSUME RegsInv, NEW gone, Forget(gone), UNCHANGED <<reg, ons>>
  PROVE  RegsInv'
BY DEF RegsInv, Forget

LEMMA ShapeStep == TypeOK /\ TasksHaveEntries /\ Shape /\ [Next]_vars => Shape'
<1> SUFFICES ASSUME TypeOK, TasksHaveEntries, Shape, [Next]_vars PROVE Shape'
  OBVIOUS
<1>1. ASSUME NEW e \in Events, NEW t \in Types, On(e, t) PROVE Shape'
  BY <1>1, ShapeOn
<1>2. ASSUME NEW e \in Events, Off(e) PROVE Shape'
  <2>1. RegsInv'
    BY <1>2, ShapeForget DEF Off, Shape
  <2>2. EntriesInv' /\ HandlersInv' /\ PacketsInv'
    BY <1>2 DEF Off, Shape, EntriesInv, HandlersInv, PacketsInv, TypeOK
  <2>3. CallsInv'
    BY <1>2 DEF Off, WriteLockFree, Shape, CallsInv
  <2> QED  BY <2>1, <2>2, <2>3 DEF Shape
<1>3. ASSUME NEW u \in Callers, NEW e \in Events, NEW id \in Ids, OffByHandlerId(u, e, id)
      PROVE  Shape'
  <2>1. RegsInv'
    BY <1>3, ShapeForget DEF OffByHandlerId, Shape, RegsInv
  <2>2. EntriesInv' /\ PacketsInv'
    BY <1>3 DEF OffByHandlerId, Shape, EntriesInv, PacketsInv
  <2>3. \A k \in Regs : handlers'[k] \subseteq handlers[k]
    BY <1>3 DEF OffByHandlerId, TypeOK
  <2>4. HandlersInv'
    BY <1>3, <2>3 DEF OffByHandlerId, Shape, HandlersInv
  <2>5. CallsInv'
    <3>1. /\ call'[u].pc = (IF entries[e] = NoEntry THEN "remove_if" ELSE "is_empty")
          /\ call'[u].event = e
      BY <1>3 DEF OffByHandlerId, TypeOK
    <3>2. \A v \in Callers : v # u => call'[v] = call[v]
      BY <1>3 DEF OffByHandlerId, TypeOK
    <3> QED  BY <1>3, <3>1, <3>2 DEF OffByHandlerId, Shape, CallsInv
  <2> QED  BY <2>1, <2>2, <2>4, <2>5 DEF Shape
<1>4. ASSUME NEW u \in Callers, OffIsEmpty(u) PROVE Shape'
  <2>1. CallsInv'
    BY <1>4 DEF OffIsEmpty, OffOnly, Idle, Shape, CallsInv, TypeOK
  <2> QED
    BY <1>4, <2>1 DEF OffIsEmpty, OffOnly, Shape, EntriesInv, HandlersInv, RegsInv, PacketsInv
<1>5. ASSUME NEW u \in Callers, OffRemoveIfEmpty(u) PROVE Shape'
  <2>1. CallsInv'
    BY <1>5 DEF OffRemoveIfEmpty, WriteLockFree, Idle, Shape, CallsInv, TypeOK
  <2>2. EntriesInv'
    BY <1>5 DEF OffRemoveIfEmpty, Shape, EntriesInv, TypeOK
  <2> QED
    BY <1>5, <2>1, <2>2 DEF OffRemoveIfEmpty, Shape, HandlersInv, RegsInv, PacketsInv
<1>6. ASSUME NEW e \in Events, NEW data \in Types \cup {NoData}, Dispatch(e, data) PROVE Shape'
  <2>1. RegsInv'
    BY <1>6 DEF Dispatch, Shape, RegsInv, TypeOK
  <2>2. PacketsInv'
    <3> SUFFICES ASSUME NEW p \in Packets
                 PROVE  /\ p > sent' => packet'[p].pc = "none" /\ ran'[p] = {}
                        /\ packet'[p].pc = "task" => packet'[p].entry <= ons'
      BY DEF PacketsInv
    <3>0. sent \in Nat /\ sent' = sent + 1 /\ p \in Nat
      BY <1>6, SizesAssumption DEF Dispatch, TypeOK, Packets
    <3>1. CASE p = sent + 1
      <4>1. ~ (p > sent')
        BY <3>0, <3>1
      <4>2. packet'[p].pc = "task" => entries[e] # NoEntry /\ packet'[p].entry = entries[e]
        BY <1>6, <3>1 DEF Dispatch, TypeOK
      <4> QED  BY <1>6, <4>1, <4>2 DEF Dispatch, Shape, EntriesInv
    <3>2. CASE p # sent + 1
      <4>1. packet'[p] = packet[p] /\ ran' = ran /\ ons' = ons
        BY <1>6, <3>2 DEF Dispatch, TypeOK
      <4>2. p > sent' => p > sent
        BY <3>0
      <4> QED  BY <4>1, <4>2 DEF Shape, PacketsInv
    <3> QED  BY <3>1, <3>2
  <2> QED
    BY <1>6, <2>1, <2>2 DEF Dispatch, Shape, EntriesInv, HandlersInv, CallsInv
<1>7. ASSUME NEW p \in Packets, RunTask(p) PROVE Shape'
  <2>1. PacketsInv'
    BY <1>7 DEF RunTask, Shape, PacketsInv, TypeOK
  <2> QED
    BY <1>7, <2>1 DEF RunTask, Shape, EntriesInv, HandlersInv, CallsInv, RegsInv
<1>8. CASE UNCHANGED vars
  BY <1>8 DEF vars, Shape, EntriesInv, HandlersInv, CallsInv, RegsInv, PacketsInv
<1> QED  BY <1>1, <1>2, <1>3, <1>4, <1>5, <1>6, <1>7, <1>8 DEF Next

LEMMA ShapeCorrect == Spec => [](TypeOK /\ TasksHaveEntries /\ Shape)
<1>1. Init => Shape
  BY DEF Init, Shape, EntriesInv, HandlersInv, CallsInv, RegsInv, PacketsInv, NoPacket, Idle,
     NoEntry, Regs
<1> QED  BY <1>1, ShapeStep, TypesCorrect, PTL DEF Spec

-----------------------------------------------------------------------------
(***************************************************************************)
(* Entries without handlers.                                               *)
(***************************************************************************)
\* An off_by_handler_id of event e is between its locks.
Leaving(u, e) == call[u].pc # "idle" /\ call[u].event = e

\* An empty entry is always on its way out: whoever empties it holds on to
\* its event until the second look, and on() fills the entry it finds.
THEOREM EmptyEntriesGo == Spec => []NoEmptyEntryLeak
<1>1. Init => NoEmptyEntryLeak
  BY DEF Init, NoEmptyEntryLeak
<1>2. TypeOK /\ Shape /\ NoEmptyEntryLeak /\ [Next]_vars => NoEmptyEntryLeak'
  <2> SUFFICES ASSUME TypeOK, Shape, NoEmptyEntryLeak, [Next]_vars,
                      NEW f \in Events, entries'[f] # NoEntry, handlers'[entries'[f]] = {}
               PROVE  \E v \in Callers : Leaving(v, f)'
    BY DEF NoEmptyEntryLeak, Leaving
  <2>0. ASSUME entries[f] # NoEntry, handlers[entries[f]] = {}
        PROVE  \E v \in Callers : Leaving(v, f)
    BY <2>0 DEF NoEmptyEntryLeak, Leaving
  <2>1. ASSUME UNCHANGED <<entries, handlers, call>> PROVE \E v \in Callers : Leaving(v, f)'
    BY <2>0, <2>1 DEF Leaving
  <2>2. ASSUME NEW e \in Events, NEW t \in Types, On(e, t)
        PROVE  \E v \in Callers : Leaving(v, f)'
    <3>1. f # e
      <4>1. ons + 1 \in handlers'[EntryOf(e)]
        BY <2>2, OnEntry DEF TypeOK
      <4> QED  BY <2>2, <4>1, OnEntry DEF TypeOK
    <3>2. entries'[f] = entries[f] /\ entries[f] <= ons /\ reg[entries[f]].event = f
      BY <2>2, <3>1, OnEntry DEF TypeOK, Shape, EntriesInv
    <3>3. entries[f] # EntryOf(e)
      BY <2>2, <3>1, <3>2, OnEntry, OnFacts
    <3>4. handlers'[entries[f]] = handlers[entries[f]]
      <4>1. entries[f] \in Regs
        BY <3>2 DEF TypeOK
      <4> QED  BY <2>2, <3>3, <4>1, OnEntry DEF TypeOK
    <3> QED  BY <2>0, <2>2, <3>2, <3>4 DEF On, Leaving
  <2>3. ASSUME NEW e \in Events, Off(e) PROVE \E v \in Callers : Leaving(v, f)'
    BY <2>0, <2>3 DEF Off, Leaving, TypeOK
  <2>4. ASSUME NEW u \in Callers, NEW e \in Events, NEW id \in Ids, OffByHandlerId(u, e, id)
        PROVE  \E v \in Callers : Leaving(v, f)'
    <3>1. CASE f = e
      <4>1. Leaving(u, e)'
        BY <2>4 DEF OffByHandlerId, Leaving, TypeOK
      <4> QED  BY <3>1, <4>1
    <3>2. CASE f # e
      <4>1. entries'[f] = entries[f] /\ handlers'[entries[f]] = handlers[entries[f]]
        <5>1. entries[f] # entries[e]
          BY <2>4, <3>2, OwnEntry DEF OffByHandlerId
        <5> QED  BY <2>4, <5>1 DEF OffByHandlerId, TypeOK
      <4>2. PICK v \in Callers : Leaving(v, f)
        BY <2>0, <4>1
      <4>3. v # u
        BY <2>4, <4>2 DEF OffByHandlerId, Leaving
      <4> QED  BY <2>4, <4>2, <4>3 DEF OffByHandlerId, Leaving, TypeOK
    <3> QED  BY <3>1, <3>2
  <2>5. ASSUME NEW u \in Callers, OffIsEmpty(u) PROVE \E v \in Callers : Leaving(v, f)'
    <3>1. PICK v \in Callers : Leaving(v, f)
      BY <2>0, <2>5 DEF OffIsEmpty, OffOnly
    <3>2. CASE v = u
      <4>1. handlers[entries[call[u].event]] = {}
        BY <2>5, <3>1, <3>2 DEF OffIsEmpty, OffOnly, Leaving
      <4>2. call'[u].pc = "remove_if" /\ call'[u].event = call[u].event
        BY <2>5, <4>1 DEF OffIsEmpty, TypeOK
      <4> QED  BY <3>1, <3>2, <4>2 DEF Leaving
    <3>3. CASE v # u
      BY <2>5, <3>1, <3>3 DEF OffIsEmpty, Leaving, TypeOK
    <3> QED  BY <3>2, <3>3
  <2>6. ASSUME NEW u \in Callers, OffRemoveIfEmpty(u) PROVE \E v \in Callers : Leaving(v, f)'
    <3>1. entries[f] # NoEntry /\ handlers[entries[f]] = {} /\ f # call[u].event
      BY <2>6 DEF OffRemoveIfEmpty, TypeOK
    <3>2. PICK v \in Callers : Leaving(v, f)
      BY <2>0, <3>1
    <3> QED  BY <2>6, <3>1, <3>2 DEF OffRemoveIfEmpty, Leaving, TypeOK
  <2> QED
    BY <2>1, <2>2, <2>3, <2>4, <2>5, <2>6 DEF Next, Dispatch, RunTask, vars
<1> QED  BY <1>1, <1>2, ShapeCorrect, PTL DEF Spec

-----------------------------------------------------------------------------
(***************************************************************************)
(* Removed handlers.                                                       *)
(***************************************************************************)
\* A removal stamps a registration with the packets dispatched so far: what
\* was due for one of them stays due.
LEMMA ForgetKeepsDue ==
  ASSUME TypeOK, NEW gone, Forget(gone), NEW h \in Regs, NEW p \in Packets, p <= sent, Due(h, p)
  PROVE  Due(h, p)'
<1>1. CASE h \in gone \cap live
  <2>1. removedAt'[h] = sent
    BY <1>1 DEF Forget
  <2> QED  BY <2>1 DEF Due
<1>2. CASE h \notin gone \cap live
  <2>1. removedAt'[h] = removedAt[h] /\ (h \in live => h \in live')
    BY <1>2 DEF Forget
  <2> QED  BY <2>1 DEF Due
<1> QED  BY <1>1, <1>2

\* A packet that has a task or that ran a handler was dispatched.
LEMMA Dispatched ==
  ASSUME TypeOK, Shape, NEW p \in Packets, packet[p].pc = "task" \/ ran[p] # {}
  PROVE  p <= sent
<1>1. ~ (p > sent)
  BY DEF Shape, PacketsInv
<1>2. p \in Nat /\ sent \in Nat
  BY SizesAssumption DEF TypeOK, Packets
<1> QED  BY <1>1, <1>2

LEMMA SilentForget ==
  ASSUME TypeOK, Shape, SilentTasks, RemovedHandlersSilent, TasksHaveEntries,
         NEW gone, Forget(gone), UNCHANGED packetVars,
         \A k \in Regs : handlers'[k] \subseteq handlers[k]
  PROVE  SilentTasks' /\ RemovedHandlersSilent'
<1>1. SilentTasks'
  <2> SUFFICES ASSUME NEW p \in Packets, packet[p].pc = "task", NEW h \in handlers'[packet[p].entry]
               PROVE  Due(h, p)'
    BY DEF SilentTasks
  <2>1. packet[p].entry \in Regs
    BY DEF TypeOK, TasksHaveEntries
  <2>2. h \in handlers[packet[p].entry] /\ h \in Regs
    BY <2>1 DEF TypeOK
  <2> QED  BY <2>2, Dispatched, ForgetKeepsDue DEF SilentTasks
<1>2. RemovedHandlersSilent'
  <2> SUFFICES ASSUME NEW p \in Packets, NEW h \in ran[p] PROVE Due(h, p)'
    BY DEF RemovedHandlersSilent, Due
  <2>1. h \in Regs /\ Due(h, p)
    BY DEF RemovedHandlersSilent, Due, TypeOK
  <2> QED  BY <2>1, Dispatched, ForgetKeepsDue
<1> QED  BY <1>1, <1>2

LEMMA SilentStep ==
  TypeOK /\ TasksHaveEntries /\ Shape /\ SilentInv /\ [Next]_vars => SilentInv'
<1> SUFFICES ASSUME TypeOK, TasksHaveEntries, Shape, SilentInv, [Next]_vars PROVE SilentInv'
  OBVIOUS
<1>0. SilentEntries /\ SilentTasks /\ RemovedHandlersSilent
  BY DEF SilentInv
<1> SUFFICES SilentEntries' /\ SilentTasks' /\ RemovedHandlersSilent'
  BY DEF SilentInv
<1>1. ASSUME NEW e \in Events, NEW t \in Types, On(e, t)
      PROVE  SilentEntries' /\ SilentTasks' /\ RemovedHandlersSilent'
  <2>0. live' = live \cup {ons + 1} /\ UNCHANGED <<removedAt, packet, ran>>
    BY <1>1 DEF On
  <2>1. \A k \in Regs : \A h \in handlers'[k] : h \in handlers[k] \/ h = ons + 1
    BY <1>1, OnEntry DEF TypeOK
  <2>2. SilentTasks'
    BY <1>0, <2>0, <2>1 DEF SilentTasks, Due, TasksHaveEntries, TypeOK
  <2>3. SilentEntries'
    <3> SUFFICES ASSUME NEW f \in Events, entries'[f] # NoEntry, NEW h \in handlers'[entries'[f]]
                 PROVE  h \in live'
      BY DEF SilentEntries
    <3>1. entries'[f] \in Regs
      BY <1>1, OnEntry DEF TypeOK
    <3>2. h \in handlers[entries'[f]] => entries'[f] = entries[f]
      BY <1>1, OnEntry DEF TypeOK
    <3> QED  BY <1>0, <2>0, <2>1, <3>1, <3>2 DEF SilentEntries
  <2>4. RemovedHandlersSilent'
    BY <1>0, <2>0 DEF RemovedHandlersSilent
  <2> QED  BY <2>2, <2>3, <2>4
<1>2. ASSUME NEW e \in Events, Off(e)
      PROVE  SilentEntries' /\ SilentTasks' /\ RemovedHandlersSilent'
  <2>1. Forget(Registered(e)) /\ UNCHANGED packetVars /\ handlers' = handlers
    BY <1>2 DEF Off
  <2>2. SilentTasks' /\ RemovedHandlersSilent'
    BY <1>0, <2>1, SilentForget
  <2>3. SilentEntries'
    <3> SUFFICES ASSUME NEW f \in Events, entries'[f] # NoEntry, NEW h \in handlers[entries'[f]]
                 PROVE  h \in live'
      BY <2>1 DEF SilentEntries
    <3>1. f # e /\ entries'[f] = entries[f]
      BY <1>2 DEF Off, TypeOK
    <3>2. reg[h].event = f
      BY <3>1 DEF Shape, EntriesInv, HandlersInv, TypeOK
    <3> QED  BY <1>0, <2>1, <3>1, <3>2 DEF SilentEntries, Forget, Registered
  <2> QED  BY <2>2, <2>3
<1>3. ASSUME NEW u \in Callers, NEW e \in Events, NEW id \in Ids, OffByHandlerId(u, e, id)
      PROVE  SilentEntries' /\ SilentTasks' /\ RemovedHandlersSilent'
  <2>1. CASE entries[e] = NoEntry
    BY <1>0, <1>3, <2>1 DEF OffByHandlerId, SilentEntries, SilentTasks, RemovedHandlersSilent, Due
  <2>2. CASE entries[e] # NoEntry
    <3> DEFINE gone == {h \in handlers[entries[e]] : reg[h].id = id}
    <3>1. /\ handlers' = [handlers EXCEPT ![entries[e]] = @ \ gone] /\ Forget(gone)
          /\ UNCHANGED <<entries, packetVars>>
      BY <1>3, <2>2 DEF OffByHandlerId
    <3>2. \A k \in Regs : handlers'[k] \subseteq handlers[k]
      BY <3>1 DEF TypeOK
    <3>3. SilentTasks' /\ RemovedHandlersSilent'
      BY <1>0, <3>1, <3>2, SilentForget
    <3>4. SilentEntries'
      <4> SUFFICES ASSUME NEW f \in Events, entries[f] # NoEntry, NEW h \in handlers'[entries[f]]
                   PROVE  h \in live'
        BY <3>1 DEF SilentEntries
      <4>1. h \in handlers[entries[f]] /\ h \in live /\ entries[f] \in Regs
        BY <1>0, <3>2 DEF SilentEntries, TypeOK
      <4>2. h \notin gone
        <5>1. CASE f = e
          BY <3>1, <4>1, <5>1 DEF TypeOK
        <5>2. CASE f # e
          <6>1. reg[h].event = f
            BY <4>1 DEF Shape, EntriesInv, HandlersInv
          <6>2. \A g \in handlers[entries[e]] : reg[g].event = e
            BY <2>2 DEF Shape, EntriesInv, HandlersInv, TypeOK
          <6> QED  BY <5>2, <6>1, <6>2
        <5> QED  BY <5>1, <5>2
      <4> QED  BY <3>1, <4>1, <4>2 DEF Forget
    <3> QED  BY <3>3, <3>4
  <2> QED  BY <2>1, <2>2
<1>4. ASSUME NEW u \in Callers, OffIsEmpty(u) \/ OffRemoveIfEmpty(u)
      PROVE  SilentEntries' /\ SilentTasks' /\ RemovedHandlersSilent'
  <2>1. UNCHANGED <<handlers, live, removedAt, packet, ran>>
    BY <1>4 DEF OffIsEmpty, OffRemoveIfEmpty, OffOnly
  <2>2. \A f \in Events : entries'[f] \in {NoEntry, entries[f]}
    BY <1>4 DEF OffIsEmpty, OffRemoveIfEmpty, OffOnly, TypeOK
  <2> QED
    BY <1>0, <2>1, <2>2 DEF SilentEntries, SilentTasks, RemovedHandlersSilent, Due
<1>5. ASSUME NEW e \in Events, NEW data \in Types \cup {NoData}, Dispatch(e, data)
      PROVE  SilentEntries' /\ SilentTasks' /\ RemovedHandlersSilent'
  <2>1. UNCHANGED <<entries, handlers, live, removedAt, ran>>
    BY <1>5 DEF Dispatch
  <2>2. ASSUME NEW p \in Packets, packet'[p].pc = "task"
        PROVE  packet'[p] = packet[p] \/ (entries[e] # NoEntry /\ packet'[p].entry = entries[e])
    <3>1. CASE p = sent + 1
      <4>1. packet'[p] = [pc |-> IF entries[e] = NoEntry THEN "done" ELSE "task",
                          entry |-> entries[e], data |-> data]
        BY <1>5, <3>1 DEF Dispatch, TypeOK
      <4> QED  BY <2>2, <4>1
    <3>2. CASE p # sent + 1
      BY <1>5, <3>2 DEF Dispatch, TypeOK
    <3> QED  BY <3>1, <3>2
  <2>3. SilentTasks'
    BY <1>0, <2>1, <2>2 DEF SilentTasks, SilentEntries, Due
  <2> QED  BY <1>0, <2>1, <2>3 DEF SilentEntries, RemovedHandlersSilent
<1>6. ASSUME NEW p \in Packets, RunTask(p)
      PROVE  SilentEntries' /\ SilentTasks' /\ RemovedHandlersSilent'
  <2>1. UNCHANGED <<entries, handlers, live, removedAt>>
    BY <1>6 DEF RunTask
  <2>2. \A q \in Packets : packet'[q].pc = "task" => packet'[q] = packet[q]
    BY <1>6 DEF RunTask, TypeOK
  <2>3. ran'[p] \subseteq handlers[packet[p].entry] /\ \A q \in Packets : q # p => ran'[q] = ran[q]
    BY <1>6 DEF RunTask, TypeOK
  <2>4. RemovedHandlersSilent'
    BY <1>0, <1>6, <2>1, <2>3 DEF RunTask, RemovedHandlersSilent, SilentTasks, Due
  <2> QED  BY <1>0, <2>1, <2>2, <2>4 DEF SilentEntries, SilentTasks, Due
<1>7. CASE UNCHANGED vars
  BY <1>0, <1>7 DEF vars, SilentEntries, SilentTasks, RemovedHandlersSilent, Due
<1> QED  BY <1>1, <1>2, <1>3, <1>4, <1>5, <1>6, <1>7 DEF Next

\* No task runs a handler that was removed before its packet was dispatched,
\* although it reads the handlers of an entry cloned earlier.
THEOREM RemovedStaySilent == Spec => []RemovedHandlersSilent
<1>1. Init => SilentInv
  BY DEF Init, SilentInv, SilentEntries, SilentTasks, RemovedHandlersSilent, NoPacket
<1>2. SilentInv => RemovedHandlersSilent
  BY DEF SilentInv
<1> QED  BY <1>1, <1>2, SilentStep, ShapeCorrect, PTL DEF Spec

-----------------------------------------------------------------------------
(***************************************************************************)
(* Stable handlers.                                                        *)
(***************************************************************************)
\* on() takes no other handler's place but one whose id it gives again.
LEMMA OnReuse ==
  ASSUME TypeOK, Shape, NEW e \in Events, NEW t \in Types, On(e, t),
         NEW k \in Regs, k <= ons
  PROVE  /\ Reused(k) => Reused(k)'
         /\ k \in SameId(e) => Reused(k)'
         /\ reg'[k] = reg[k]
<1>0. /\ k \in Nat \ {0} /\ ons \in Nat /\ ons' = ons + 1 /\ IdSpace \in Nat \ {0}
      /\ \A h \in (k + IdSpace)..ons : h \in Regs /\ h <= ons
  BY OnFacts, SizesAssumption DEF Regs, TypeOK
<1>1. reg'[k] = reg[k]
  BY OnFacts
<1>2. ASSUME Reused(k) PROVE Reused(k)'
  <2>1. PICK h \in (k + IdSpace)..ons : reg[h].event = reg[k].event /\ reg[h].id = reg[k].id
    BY <1>2 DEF Reused
  <2>2. reg'[h] = reg[h]
    BY <1>0, OnFacts
  <2>3. h \in (k + IdSpace)..ons'
    BY <1>0
  <2> QED  BY <1>1, <2>1, <2>2, <2>3 DEF Reused
<1>3. ASSUME k \in SameId(e) PROVE Reused(k)'
  <2>1. k \in handlers[EntryOf(e)] /\ reg[k].id = ons % IdSpace
    BY <1>3 DEF SameId
  <2>2. reg[k].event = reg[EntryOf(e)].event /\ EntryOf(e) \in Regs /\ EntryOf(e) <= ons
    BY <2>1, OnEntry DEF Shape, HandlersInv
  <2>3. reg[k].event = e
    BY <2>2, OnEntry, OnFacts
  <2>4. (k - 1) % IdSpace = ons % IdSpace
    BY <2>1 DEF Shape, RegsInv
  <2>5. k - 1 \in Nat /\ k - 1 < ons
    BY <1>0
  <2>6. (k - 1) + IdSpace <= ons
    BY <1>0, <2>4, <2>5, SameRemainderApart
  <2>7. ons + 1 \in (k + IdSpace)..ons'
    BY <1>0, <2>6
  <2> QED  BY <1>1, <2>1, <2>3, <2>7, OnFacts DEF Reused
<1> QED  BY <1>1, <1>2, <1>3

\* Nothing else changes whether an id was given again.
LEMMA SameReuse ==
  ASSUME UNCHANGED <<reg, ons>>
  PROVE  \A k : Reused(k)' <=> Reused(k)
BY DEF Reused

LEMMA StableOn ==
  ASSUME TypeOK, TasksHaveEntries, Shape, StableInv, NEW e \in Events, NEW t \in Types, On(e, t)
  PROVE  StableInv'
<1>0. /\ live' = live \cup {ons + 1} /\ UNCHANGED <<packet, ran, owed>>
      /\ \A k \in live : k \in Regs /\ k <= ons
      /\ \A p \in Packets : owed[p] \subseteq live
  BY DEF On, TypeOK, Shape, RegsInv
<1>1. ASSUME NEW m \in Regs, NEW k \in handlers[m], ~ Reused(k)' PROVE k \in handlers'[m]
  <2>1. k \in Regs /\ k <= ons
    BY <1>1 DEF Shape, HandlersInv, TypeOK
  <2>2. k \notin SameId(e)
    BY <1>1, <2>1, OnReuse
  <2> QED  BY <2>2, OnEntry DEF TypeOK
<1>2. StableEntries'
  <2> SUFFICES ASSUME NEW k \in live', ~ Reused(k)'
               PROVE  /\ entries'[reg'[k].event] # NoEntry
                      /\ k \in handlers'[entries'[reg'[k].event]]
    BY DEF StableEntries
  <2>1. CASE k = ons + 1
    <3>1. reg'[k].event = e /\ entries'[e] = EntryOf(e) /\ EntryOf(e) # NoEntry
      BY <2>1, OnFacts, OnEntry DEF TypeOK
    <3>2. k \in handlers'[EntryOf(e)]
      BY <2>1, OnEntry DEF TypeOK
    <3> QED  BY <3>1, <3>2
  <2>2. CASE k # ons + 1
    <3>1. k \in live /\ reg'[k] = reg[k] /\ ~ Reused(k) /\ k \in Regs /\ k <= ons
      BY <1>0, <2>2, OnReuse
    <3>2. /\ entries[reg[k].event] # NoEntry /\ k \in handlers[entries[reg[k].event]]
          /\ reg[k].event \in Events
      BY <3>1 DEF StableInv, StableEntries, Shape, RegsInv
    <3>3. entries'[reg[k].event] = entries[reg[k].event] /\ entries[reg[k].event] \in Regs
      BY <3>2, OnEntry DEF TypeOK, EntryOf
    <3> QED  BY <1>1, <3>1, <3>2, <3>3
  <2> QED  BY <2>1, <2>2
<1>3. StableTasks'
  <2> SUFFICES ASSUME NEW p \in Packets, packet[p].pc = "task", NEW k \in owed[p], ~ Reused(k)'
               PROVE  k \in handlers'[packet[p].entry]
    BY <1>0 DEF StableTasks
  <2>1. packet[p].entry \in Regs /\ ~ Reused(k)
    BY <1>0, OnReuse DEF TasksHaveEntries, TypeOK
  <2> QED  BY <1>1, <2>1 DEF StableInv, StableTasks
<1>4. StableHandlersRun'
  <2> SUFFICES ASSUME NEW p \in Packets, packet[p].pc = "done", NEW k \in owed[p], ~ Reused(k)',
                      reg'[k].type = Value(p)
               PROVE  k \in ran[p]
    BY <1>0 DEF StableHandlersRun, Value
  <2>1. ~ Reused(k) /\ reg'[k] = reg[k] /\ k \in live
    BY <1>0, OnReuse
  <2> QED  BY <2>1 DEF StableInv, StableHandlersRun
<1> QED  BY <1>2, <1>3, <1>4 DEF StableInv

LEMMA StableStep ==
  TypeOK /\ TasksHaveEntries /\ Shape /\ StableInv /\ [Next]_vars => StableInv'
<1> SUFFICES ASSUME TypeOK, TasksHaveEntries, Shape, StableInv, [Next]_vars PROVE StableInv'
  OBVIOUS
<1>1. ASSUME NEW e \in Events, NEW t \in Types, On(e, t) PROVE StableInv'
  BY <1>1, StableOn
<1>2. ASSUME NEW e \in Events, Off(e) PROVE StableInv'
  <2>0. /\ live' = live \ Registered(e) /\ \A p \in Packets : owed'[p] \subseteq owed[p]
        /\ UNCHANGED <<handlers, reg, ons, packet, ran>>
        /\ entries' = [entries EXCEPT ![e] = NoEntry]
    BY <1>2 DEF Off, Forget
  <2>1. StableEntries'
    <3> SUFFICES ASSUME NEW k \in live', ~ Reused(k)
                 PROVE  /\ entries'[reg[k].event] # NoEntry
                        /\ k \in handlers[entries'[reg[k].event]]
      BY <2>0, SameReuse DEF StableEntries
    <3>1. k \in live /\ reg[k].event # e
      BY <2>0, SizesAssumption DEF Registered, Shape, RegsInv, TypeOK, Regs
    <3>2. entries'[reg[k].event] = entries[reg[k].event]
      BY <2>0, <3>1 DEF TypeOK, Shape, RegsInv
    <3> QED  BY <3>1, <3>2 DEF StableInv, StableEntries
  <2>2. StableTasks'
    BY <2>0, SameReuse DEF StableInv, StableTasks
  <2>3. StableHandlersRun'
    BY <2>0, SameReuse DEF StableInv, StableHandlersRun, Value
  <2> QED  BY <2>1, <2>2, <2>3 DEF StableInv
<1>3. ASSUME NEW u \in Callers, NEW e \in Events, NEW id \in Ids, OffByHandlerId(u, e, id)
      PROVE  StableInv'
  <2>0. UNCHANGED <<entries, reg, ons, packet, ran>>
    BY <1>3 DEF OffByHandlerId
  <2>1. /\ \A m \in Regs : \A k \in handlers[m] \cap live' : k \in handlers'[m]
        /\ live' \subseteq live /\ \A p \in Packets : owed'[p] \subseteq owed[p] \cap live'
    <3>1. CASE entries[e] = NoEntry
      BY <1>3, <3>1 DEF OffByHandlerId, Shape, RegsInv
    <3>2. CASE entries[e] # NoEntry
      <4> DEFINE gone == {h \in handlers[entries[e]] : reg[h].id = id}
      <4>1. handlers' = [handlers EXCEPT ![entries[e]] = @ \ gone] /\ Forget(gone)
        BY <1>3, <3>2 DEF OffByHandlerId
      <4> HIDE DEF gone
      <4> QED  BY <4>1 DEF Forget, Shape, RegsInv, TypeOK
    <3> QED  BY <3>1, <3>2
  <2>2. StableEntries'
    <3> SUFFICES ASSUME NEW k \in live', ~ Reused(k)
                 PROVE  /\ entries[reg[k].event] # NoEntry
                        /\ k \in handlers'[entries[reg[k].event]]
      BY <2>0, SameReuse DEF StableEntries
    <3>1. /\ entries[reg[k].event] # NoEntry /\ k \in handlers[entries[reg[k].event]]
          /\ reg[k].event \in Events
      BY <2>1 DEF StableInv, StableEntries, Shape, RegsInv, TypeOK
    <3> QED  BY <2>1, <3>1 DEF TypeOK
  <2>3. StableTasks'
    BY <2>0, <2>1, SameReuse DEF StableInv, StableTasks, TasksHaveEntries, TypeOK
  <2>4. StableHandlersRun'
    BY <2>0, <2>1, SameReuse DEF StableInv, StableHandlersRun, Value
  <2> QED  BY <2>2, <2>3, <2>4 DEF StableInv
<1>4. ASSUME NEW u \in Callers, OffIsEmpty(u) PROVE StableInv'
  <2>1. UNCHANGED <<regVars, packetVars, live, owed>>
    BY <1>4 DEF OffIsEmpty, OffOnly
  <2> QED
    BY <2>1, SameReuse DEF StableInv, StableEntries, StableTasks, StableHandlersRun, Value
<1>5. ASSUME NEW u \in Callers, OffRemoveIfEmpty(u) PROVE StableInv'
  <2>0. UNCHANGED <<handlers, reg, ons, packetVars, live, owed>>
    BY <1>5 DEF OffRemoveIfEmpty
  <2>1. \A f \in Events : entries'[f] = entries[f] \/ handlers[entries[f]] = {}
    BY <1>5 DEF OffRemoveIfEmpty, TypeOK
  <2>2. StableEntries'
    BY <2>0, <2>1, SameReuse DEF StableInv, StableEntries, Shape, RegsInv, TypeOK
  <2> QED  BY <2>0, <2>2, SameReuse DEF StableInv, StableTasks, StableHandlersRun, Value
<1>6. ASSUME NEW e \in Events, NEW data \in Types \cup {NoData}, Dispatch(e, data)
      PROVE  StableInv'
  <2>0. UNCHANGED <<entries, handlers, reg, ons, ran, live>>
    BY <1>6 DEF Dispatch
  <2>1. ASSUME NEW p \in Packets
        PROVE  \/ packet'[p] = packet[p] /\ owed'[p] = owed[p]
               \/ /\ packet'[p].pc = (IF entries[e] = NoEntry THEN "done" ELSE "task")
                  /\ packet'[p].entry = entries[e] /\ owed'[p] = {k \in live : reg[k].event = e}
    <3>1. CASE p = sent + 1
      <4>1. packet'[p] = [pc |-> IF entries[e] = NoEntry THEN "done" ELSE "task",
                          entry |-> entries[e], data |-> data]
        BY <1>6, <3>1 DEF Dispatch, TypeOK
      <4>2. owed'[p] = {k \in live : reg[k].event = e}
        BY <1>6, <3>1 DEF Dispatch, TypeOK
      <4> QED  BY <4>1, <4>2
    <3>2. CASE p # sent + 1
      BY <1>6, <3>2 DEF Dispatch, TypeOK
    <3> QED  BY <3>1, <3>2
  <2>2. StableEntries'
    BY <2>0, SameReuse DEF StableInv, StableEntries
  <2>3. StableTasks'
    BY <2>0, <2>1, SameReuse DEF StableInv, StableEntries, StableTasks
  <2>4. StableHandlersRun'
    BY <2>0, <2>1, SameReuse DEF StableInv, StableEntries, StableHandlersRun, Value
  <2> QED  BY <2>2, <2>3, <2>4 DEF StableInv
<1>7. ASSUME NEW p \in Packets, RunTask(p) PROVE StableInv'
  <2>0. UNCHANGED <<entries, handlers, reg, ons, live, owed>>
    BY <1>7 DEF RunTask
  <2>1. \A q \in Packets : q # p => packet'[q] = packet[q] /\ ran'[q] = ran[q]
    BY <1>7 DEF RunTask, TypeOK
  <2>2. packet'[p].pc = "done" /\ Value(p)' = Value(p)
    BY <1>7 DEF RunTask, Value, TypeOK
  <2>3. ASSUME NEW k \in owed[p], ~ Reused(k), reg[k].type = Value(p) PROVE k \in ran'[p]
    <3>1. k \in handlers[packet[p].entry] /\ packet[p].entry \in Regs
      BY <1>7, <2>3 DEF RunTask, StableInv, StableTasks, TasksHaveEntries, TypeOK
    <3>2. reg[packet[p].entry].type = Value(p)
      BY <2>3, <3>1 DEF Shape, HandlersInv
    <3>3. packet[p].data \in {NoData, reg[packet[p].entry].type}
      BY <3>2 DEF Value
    <3> QED  BY <1>7, <2>3, <3>1, <3>3 DEF RunTask, TypeOK
  <2>4. StableEntries' /\ StableTasks'
    BY <2>0, <2>1, <2>2, SameReuse DEF StableInv, StableEntries, StableTasks
  <2>5. StableHandlersRun'
    <3> SUFFICES ASSUME NEW q \in Packets, packet'[q].pc = "done", NEW k \in owed[q], k \in live,
                        ~ Reused(k), reg[k].type = Value(q)'
                 PROVE  k \in ran'[q]
      BY <2>0, SameReuse DEF StableHandlersRun
    <3>1. CASE q = p
      BY <2>2, <2>3, <3>1
    <3>2. CASE q # p
      BY <2>1, <3>2 DEF StableInv, StableHandlersRun, Value
    <3> QED  BY <3>1, <3>2
  <2> QED  BY <2>4, <2>5 DEF StableInv
<1>8. CASE UNCHANGED vars
  <2>1. UNCHANGED <<regVars, packetVars, live, owed>>
    BY <1>8 DEF vars
  <2> QED
    BY <2>1, SameReuse DEF StableInv, StableEntries, StableTasks, StableHandlersRun, Value
<1> QED  BY <1>1, <1>2, <1>3, <1>4, <1>5, <1>6, <1>7, <1>8 DEF Next

\* Every packet runs every handler that stays registered from its dispatch
\* to the end of its task and whose type its data has, unless on() was called
\* IdSpace times in between: off_by_handler_id's two locks lose none.
THEOREM StableHandlersAreRun == Spec => []StableHandlersRun
<1>1. Init => StableInv
  BY DEF Init, StableInv, StableEntries, StableTasks, StableHandlersRun, NoPacket
<1>2. StableInv => StableHandlersRun
  BY DEF StableInv
<1> QED  BY <1>1, <1>2, StableStep, ShapeCorrect, PTL DEF Spec

=============================================================================
