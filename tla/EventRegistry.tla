----------------------------- MODULE EventRegistry -----------------------------
(***************************************************************************)
(* The event registry of a connection or of a client                       *)
(* (wsio-core/src/event/registry.rs): on(), off(), off_by_handler_id() and *)
(* dispatch_event_packet(), called by several tasks at once.               *)
(*                                                                         *)
(* event_entries maps an event to a shared entry, which holds the type of  *)
(* its payload and a map from handler ids to handlers under a lock of its  *)
(* own.  A dispatch clones the entry and reads its handlers later, in a    *)
(* task.  A step is what happens under one acquisition of a lock.          *)
(***************************************************************************)
EXTENDS Integers, FiniteSets

CONSTANTS
  Callers,     \* tasks that call on() and off()
  Events,      \* event names
  Types,       \* payload types, one of which is the unit type
  IdSpace,     \* how many handler ids there are before the counter wraps
  MaxOns,      \* bound on the registrations
  MaxPackets   \* bound on the dispatched packets

Unit == "unit"
NoData == "none"

ASSUME SizesAssumption ==
  IdSpace \in Nat \ {0} /\ MaxOns \in Nat /\ MaxPackets \in Nat
ASSUME TypesAssumption == Unit \in Types /\ NoData \notin Types

Regs == 1..MaxOns        \* registrations, in order; also the entry one created
Packets == 1..MaxPackets
Ids == 0..(IdSpace - 1)
NoEntry == 0

VARIABLES
  entries,     \* event_entries: the entry of every event, or NoEntry
  handlers,    \* the registrations in the map of every entry
  reg,         \* [event, type, id] of every registration
  ons,         \* registrations so far; next_handler_id is ons modulo IdSpace
  call,        \* per caller, the off_by_handler_id in progress
  packet,      \* the dispatched packets and their tasks
  sent,        \* packets so far
  ran,         \* the registrations whose handler every packet ran
  live,        \* registrations that nobody has removed
  removedAt,   \* how many packets there were when a registration was removed
  owed         \* registrations live since a packet's dispatch

regVars == <<entries, handlers, reg, ons, removedAt>>
packetVars == <<packet, sent, ran>>
vars == <<regVars, call, packetVars, live, owed>>

Idle == [pc |-> "idle", event |-> "none", id |-> 0]
NoPacket == [pc |-> "none", entry |-> NoEntry, data |-> NoData]

\* Every variable has its type; handler ids stay within the counter's range.
TypeOK ==
  /\ entries \in [Events -> Regs \cup {NoEntry}]
  /\ handlers \in [Regs -> SUBSET Regs]
  /\ reg \in [Regs -> [event : Events \cup {"none"}, type : Types, id : Ids]]
  /\ ons \in 0..MaxOns /\ sent \in 0..MaxPackets
  /\ call \in [Callers -> [pc : {"idle", "is_empty", "remove_if"},
                           event : Events \cup {"none"}, id : Ids]]
  /\ packet \in [Packets -> [pc : {"none", "task", "done"}, entry : Regs \cup {NoEntry},
                             data : Types \cup {NoData}]]
  /\ ran \in [Packets -> SUBSET Regs] /\ owed \in [Packets -> SUBSET Regs]
  /\ live \subseteq Regs /\ removedAt \in [Regs -> 0..MaxPackets]

Init ==
  /\ entries = [e \in Events |-> NoEntry] /\ handlers = [k \in Regs |-> {}]
  /\ reg = [k \in Regs |-> [event |-> "none", type |-> Unit, id |-> 0]]
  /\ ons = 0 /\ sent = 0
  /\ call = [u \in Callers |-> Idle]
  /\ packet = [p \in Packets |-> NoPacket] /\ ran = [p \in Packets |-> {}]
  /\ live = {} /\ removedAt = [k \in Regs |-> 0] /\ owed = [p \in Packets |-> {}]

-----------------------------------------------------------------------------
(***************************************************************************)
(* The lock of event_entries.  off_by_handler_id holds it for reading from *)
(* the removal to its test; every other acquisition lasts one step.        *)
(***************************************************************************)
WriteLockFree == \A u \in Callers : call[u].pc # "is_empty"

Registered(e) == {k \in 1..ons : reg[k].event = e}

\* The caller asks for the registrations `gone` to be removed.
Forget(gone) ==
  /\ live' = live \ gone
  /\ removedAt' = [k \in Regs |-> IF k \in gone \cap live THEN sent ELSE removedAt[k]]
  /\ owed' = [p \in Packets |-> owed[p] \ gone]

\* Mutant: the counter does not wrap.
OnNoWrap(e, t) ==
  LET k == ons + 1
      entry == IF entries[e] = NoEntry THEN k ELSE entries[e]
  IN /\ ons < MaxOns /\ WriteLockFree
     /\ entries[e] # NoEntry => reg[entries[e]].type = t
     /\ ons' = k /\ reg' = [reg EXCEPT ![k] = [event |-> e, type |-> t, id |-> ons]]
     /\ entries' = [entries EXCEPT ![e] = entry]
     /\ handlers' = [handlers EXCEPT ![entry] = @ \cup {k}]
     /\ live' = live \cup {k}
     /\ UNCHANGED <<removedAt, call, packetVars, owed>>

\* on(e, handler of type t): into the event's entry, or a new one; the id is
\* the next of a counter that wraps, and an old handler under the same id is
\* replaced.
On(e, t) ==
  LET k == ons + 1
      id == ons % IdSpace
      entry == IF entries[e] = NoEntry THEN k ELSE entries[e]
      replaced == {h \in handlers[entry] : reg[h].id = id}
  IN /\ ons < MaxOns /\ WriteLockFree
     /\ entries[e] # NoEntry => reg[entries[e]].type = t
     /\ ons' = k /\ reg' = [reg EXCEPT ![k] = [event |-> e, type |-> t, id |-> id]]
     /\ entries' = [entries EXCEPT ![e] = entry]
     /\ handlers' = [handlers EXCEPT ![entry] = (@ \ replaced) \cup {k}]
     /\ live' = live \cup {k}
     /\ UNCHANGED <<removedAt, call, packetVars, owed>>

\* Mutant: off() leaves an entry with several handlers alone.
OffSingle(e) ==
  /\ WriteLockFree /\ entries[e] # NoEntry
  /\ entries' = IF Cardinality(handlers[entries[e]]) > 1 THEN entries
                ELSE [entries EXCEPT ![e] = NoEntry]
  /\ Forget(Registered(e))
  /\ UNCHANGED <<handlers, reg, ons, call, packetVars>>

\* off(e): the entry is detached, with its handlers.
Off(e) ==
  /\ WriteLockFree /\ entries[e] # NoEntry
  /\ entries' = [entries EXCEPT ![e] = NoEntry]
  /\ Forget(Registered(e))
  /\ UNCHANGED <<handlers, reg, ons, call, packetVars>>

\* off_by_handler_id(e, id): the handler is taken out, ...
OffByHandlerId(u, e, id) ==
  /\ call[u].pc = "idle"
  /\ IF entries[e] = NoEntry
       THEN /\ call' = [call EXCEPT ![u] = [pc |-> "remove_if", event |-> e, id |-> id]]
            /\ UNCHANGED <<handlers, live, removedAt, owed>>
       ELSE LET gone == {h \in handlers[entries[e]] : reg[h].id = id} IN
            /\ call' = [call EXCEPT ![u] = [pc |-> "is_empty", event |-> e, id |-> id]]
            /\ handlers' = [handlers EXCEPT ![entries[e]] = @ \ gone]
            /\ Forget(gone)
  /\ UNCHANGED <<entries, reg, ons, packetVars>>

OffOnly == UNCHANGED <<regVars, packetVars, live, owed>>

\* Mutant: an empty entry is left to the next call.
OffReturnsEarly(u) ==
  /\ call[u].pc = "is_empty" /\ call' = [call EXCEPT ![u] = Idle] /\ OffOnly

\* ... the call returns if others are left, and gives up the read lock, ...
OffIsEmpty(u) ==
  /\ call[u].pc = "is_empty"
  /\ call' = [call EXCEPT ![u] = IF handlers[entries[call[u].event]] # {} THEN Idle
                                 ELSE [@ EXCEPT !.pc = "remove_if"]]
  /\ OffOnly

\* Mutant: the entry goes without a second look at it.
OffRemove(u) ==
  /\ call[u].pc = "remove_if" /\ WriteLockFree
  /\ call' = [call EXCEPT ![u] = Idle]
  /\ entries' = [entries EXCEPT ![call[u].event] = NoEntry]
  /\ UNCHANGED <<handlers, reg, ons, removedAt, packetVars, live, owed>>

\* ... and the entry, whichever the event has now, goes if it is empty.
OffRemoveIfEmpty(u) ==
  LET e == call[u].event IN
  /\ call[u].pc = "remove_if" /\ WriteLockFree
  /\ call' = [call EXCEPT ![u] = Idle]
  /\ entries' = IF entries[e] # NoEntry /\ handlers[entries[e]] = {}
                  THEN [entries EXCEPT ![e] = NoEntry] ELSE entries
  /\ UNCHANGED <<handlers, reg, ons, removedAt, packetVars, live, owed>>

-----------------------------------------------------------------------------
(***************************************************************************)
(* dispatch_event_packet.                                                  *)
(***************************************************************************)
\* The entry is cloned and a task spawned; without an entry nothing happens.
Dispatch(e, data) ==
  LET p == sent + 1 IN
  /\ sent < MaxPackets /\ sent' = p
  /\ packet' = [packet EXCEPT ![p] =
                  [pc |-> IF entries[e] = NoEntry THEN "done" ELSE "task",
                   entry |-> entries[e], data |-> data]]
  /\ owed' = [owed EXCEPT ![p] = {k \in live : reg[k].event = e}]
  /\ UNCHANGED <<regVars, call, ran, live>>

\* The value the handlers get; a packet without data carries the unit value.
Value(p) == IF packet[p].data = NoData THEN Unit ELSE packet[p].data

\* Bytes decode as the entry's type or the task ends.  Every handler of the
\* moment is called; one of another type returns at once.
RunTask(p) ==
  /\ packet[p].pc = "task" /\ packet' = [packet EXCEPT ![p].pc = "done"]
  /\ ran' = [ran EXCEPT ![p] =
       IF packet[p].data \notin {NoData, reg[packet[p].entry].type} THEN {}
       ELSE {h \in handlers[packet[p].entry] : reg[h].type = Value(p)}]
  /\ UNCHANGED <<regVars, call, sent, live, owed>>

-----------------------------------------------------------------------------
Next ==
  \/ \E e \in Events, t \in Types : On(e, t)
  \/ \E e \in Events : Off(e)
  \/ \E u \in Callers : OffIsEmpty(u) \/ OffRemoveIfEmpty(u)
  \/ \E u \in Callers, e \in Events, id \in Ids : OffByHandlerId(u, e, id)
  \/ \E e \in Events, data \in Types \cup {NoData} : Dispatch(e, data)
  \/ \E p \in Packets : RunTask(p)

Spec == Init /\ [][Next]_vars

-----------------------------------------------------------------------------
(***************************************************************************)
(* Properties.                                                             *)
(***************************************************************************)
\* The id of k was given again, after the counter went all the way round.
Reused(k) ==
  \E h \in (k + IdSpace)..ons : reg[h].event = reg[k].event /\ reg[h].id = reg[k].id

\* An event without handlers forgets its payload type, so that on() does not
\* panic on its next user: an empty entry stays only while an
\* off_by_handler_id of that event is between its locks.
NoEmptyEntryLeak ==
  \A e \in Events :
    entries[e] # NoEntry /\ handlers[entries[e]] = {} =>
      \E u \in Callers : call[u].pc # "idle" /\ call[u].event = e

\* A handler that was removed runs for no packet dispatched afterwards; what
\* off() detached may still run for the packets dispatched before.
RemovedHandlersSilent ==
  \A p \in Packets : \A k \in ran[p] : k \in live \/ p <= removedAt[k]

\* A packet runs every handler that is registered from its dispatch to the
\* end of its task, if its data has their type: no handler is lost, although
\* off_by_handler_id decides under one lock and removes under another while
\* on() adds to the same entry.  Only the reuse of its id, IdSpace (2^32)
\* registrations later, takes a handler away.
StableHandlersRun ==
  \A p \in Packets : packet[p].pc = "done" =>
    \A k \in owed[p] : k \in live /\ ~ Reused(k) /\ reg[k].type = Value(p) => k \in ran[p]

=============================================================================
