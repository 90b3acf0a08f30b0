------------------------------- MODULE Broadcast -------------------------------
(***************************************************************************)
(* The broadcasts of a wsio-server namespace                               *)
(* (namespace/operators/broadcast.rs, and what to(), except(), emit(),     *)
(* close_all() and disconnect_all() of a connection and of the namespace   *)
(* make of it).                                                            *)
(*                                                                         *)
(* A broadcast reads the maps of the namespace one after the other and     *)
(* then serves its targets, while connections register, move between       *)
(* rooms, close and are cleaned up.  Of a connection only what a broadcast *)
(* can see is kept (the rest is in ServerConnection), and of the rooms     *)
(* only their bitmaps (the rest is in Rooms): each step of theirs sets or  *)
(* clears one bit.                                                         *)
(***************************************************************************)
EXTENDS Integers, FiniteSets, FiniteSetsExt

CONSTANTS
  Conns,      \* connection ids
  Rooms,      \* room names
  Casts,      \* tasks that broadcast
  Operators,  \* the broadcast operators they build with to() and except()
  Limit,      \* broadcast_concurrency_limit, 0 for none
  Stalled,    \* connections whose peer stops reading
  Movers      \* connections that join and leave rooms

ASSUME SizesAssumption == Conns \subseteq Nat /\ Limit \in Nat
ASSUME OperatorsAssumption ==
  Operators \subseteq [include : SUBSET Rooms, exclude : SUBSET Rooms, except : SUBSET Conns]
ASSUME ConnsAssumption == Stalled \subseteq Conns /\ Movers \subseteq Conns
ASSUME RoomsAssumption == "none" \notin Rooms

VARIABLES
  state,          \* ConnectionState: "handshake", "Ready" or "Closing"
  connections,    \* namespace.connections
  connectionIds,  \* namespace.connection_ids
  inserting,      \* per connection, the map insert_connection updates next
  cleaning,       \* per connection, the map remove_connection updates next
  rooms,          \* the bitmap of every room
  cast,           \* the broadcast of every task
  seen            \* what a broadcast's connections did while it ran

connVars == <<state, inserting, cleaning, connections, connectionIds>>
vars == <<connVars, rooms, cast, seen>>

NoRoom == "none"
AnyRoom == Rooms \cup {NoRoom}

Kinds == {"emit", "disconnect", "close"}
NoOperator == [include |-> {}, exclude |-> {}, except |-> {}]
IdleCast == [pc |-> "idle", kind |-> "emit", op |-> NoOperator, todo |-> {}, targets |-> {},
             checking |-> {}, sending |-> {}, got |-> {}]
NothingSeen == [stable |-> {}, in |-> {}, out |-> {}]

Pairs == Conns \X AnyRoom

CastType ==
  [pc : {"idle", "include", "exclude", "send", "done"}, kind : Kinds,
   op : Operators \cup {NoOperator}, todo : SUBSET AnyRoom, targets : SUBSET Conns,
   checking : SUBSET Conns, sending : SUBSET Conns, got : SUBSET Conns]

\* Every variable has its type, and a target of a broadcast is at one stage
\* of it at a time.
TypeOK ==
  /\ state \in [Conns -> {"handshake", "Ready", "Closing"}]
  /\ connections \subseteq Conns /\ connectionIds \subseteq Conns
  /\ inserting \in [Conns -> {"no", "connections", "ids", "done"}]
  /\ cleaning \in [Conns -> {"no", "connections", "ids", "done"}]
  /\ rooms \in [Rooms -> SUBSET Conns] /\ cast \in [Casts -> CastType]
  /\ seen \in [Casts -> [stable : SUBSET Pairs, in : SUBSET Conns,
                         out : SUBSET (Conns \X Rooms)]]
  /\ \A b \in Casts :
       /\ cast[b].targets \cap (cast[b].checking \cup cast[b].sending \cup cast[b].got) = {}
       /\ cast[b].checking \cap cast[b].sending = {}
       /\ cast[b].got \cap (cast[b].checking \cup cast[b].sending) = {}

Init ==
  /\ state = [c \in Conns |-> "handshake"]
  /\ connections = {} /\ connectionIds = {}
  /\ inserting = [c \in Conns |-> "no"] /\ cleaning = [c \in Conns |-> "no"]
  /\ rooms = [r \in Rooms |-> {}]
  /\ cast = [b \in Casts |-> IdleCast] /\ seen = [b \in Casts |-> NothingSeen]

-----------------------------------------------------------------------------
(***************************************************************************)
(* The connections.  insert_connection and remove_connection update the    *)
(* two maps one after the other; a reader aborted in the middle of its     *)
(* handshake may insert the connection after cleanup() removed it.         *)
(***************************************************************************)
Ready(c) ==
  /\ state[c] = "handshake" /\ state' = [state EXCEPT ![c] = "Ready"]
  /\ inserting' = [inserting EXCEPT ![c] = "connections"]
  /\ UNCHANGED <<cleaning, connections, connectionIds, rooms, cast>>

InsertConnection(c) ==
  /\ UNCHANGED <<state, cleaning, rooms, cast>>
  /\ \/ /\ inserting[c] = "connections" /\ inserting' = [inserting EXCEPT ![c] = "ids"]
        /\ connections' = connections \cup {c} /\ UNCHANGED connectionIds
     \/ /\ inserting[c] = "ids" /\ inserting' = [inserting EXCEPT ![c] = "done"]
        /\ connectionIds' = connectionIds \cup {c} /\ UNCHANGED connections

\* A stream task has ended, the channel may be closed from here on, and the
\* driver begins cleanup().
CleanupClosing(c) ==
  /\ cleaning[c] = "no" /\ cleaning' = [cleaning EXCEPT ![c] = "connections"]
  /\ state' = [state EXCEPT ![c] = "Closing"]
  /\ UNCHANGED <<inserting, connections, connectionIds, rooms, cast>>

CleanupRemoveConnection(c) ==
  /\ UNCHANGED <<state, inserting, rooms, cast>>
  /\ \/ /\ cleaning[c] = "connections" /\ cleaning' = [cleaning EXCEPT ![c] = "ids"]
        /\ connections' = connections \ {c} /\ UNCHANGED connectionIds
     \/ /\ cleaning[c] = "ids" /\ cleaning' = [cleaning EXCEPT ![c] = "done"]
        /\ connectionIds' = connectionIds \ {c} /\ UNCHANGED connections

\* join(), and leave() or cleanup().
EnterRoom(c, r) ==
  rooms' = [rooms EXCEPT ![r] = @ \cup {c}] /\ UNCHANGED <<connVars, cast>>
ExitRoom(c, r) ==
  rooms' = [rooms EXCEPT ![r] = @ \ {c}] /\ UNCHANGED <<connVars, cast>>

-----------------------------------------------------------------------------
(***************************************************************************)
(* A broadcast: the targets are collected map by map, then every one is    *)
(* looked up and served, at most Limit of them at a time.                  *)
(***************************************************************************)
CastOnly == UNCHANGED <<connVars, rooms>>
Set(b, new) == cast' = [cast EXCEPT ![b] = new]

\* An emit() that is refused, because the namespace is shutting down, does
\* not start at all.
Start(b, kind, op) ==
  /\ cast[b].pc = "idle"
  /\ Set(b, [IdleCast EXCEPT !.pc = "include", !.kind = kind, !.op = op,
                             !.todo = IF op.include = {} THEN {NoRoom} ELSE op.include])
  /\ CastOnly

\* Mutant: a room narrows the targets instead of adding to them.
IncludeNarrows(b) ==
  /\ cast[b].pc = "include" /\ cast[b].todo # {}
  /\ \E r \in cast[b].todo :
       LET ids == IF r = NoRoom THEN connectionIds ELSE rooms[r] IN
       Set(b, [cast[b] EXCEPT !.targets = IF @ = {} THEN ids ELSE @ \cap ids, !.todo = @ \ {r}])
  /\ CastOnly

\* The union of the included rooms, one after the other; without any, the
\* namespace's connection_ids.
Include(b) ==
  /\ cast[b].pc = "include" /\ cast[b].todo # {}
  /\ \E r \in cast[b].todo :
       Set(b, [cast[b] EXCEPT !.targets = @ \cup (IF r = NoRoom THEN connectionIds ELSE rooms[r]),
                              !.todo = @ \ {r}])
  /\ CastOnly

BeginExclude(b) ==
  /\ cast[b].pc = "include" /\ cast[b].todo = {}
  /\ Set(b, [cast[b] EXCEPT !.pc = "exclude", !.todo = cast[b].op.exclude])
  /\ CastOnly

\* The excluded rooms, one after the other, as long as a target is left.
Exclude(b) ==
  /\ cast[b].pc = "exclude" /\ cast[b].targets # {}
  /\ \E r \in cast[b].todo :
       Set(b, [cast[b] EXCEPT !.targets = @ \ rooms[r], !.todo = @ \ {r}])
  /\ CastOnly

\* Mutant: the sender's own id is not taken out.
BeginSendToAll(b) ==
  /\ cast[b].pc = "exclude" /\ (cast[b].todo = {} \/ cast[b].targets = {})
  /\ Set(b, [cast[b] EXCEPT !.pc = "send", !.todo = {}])
  /\ CastOnly

\* Then the excluded ids (the connection whose to() or except() this is).
BeginSend(b) ==
  /\ cast[b].pc = "exclude" /\ (cast[b].todo = {} \/ cast[b].targets = {})
  /\ Set(b, [cast[b] EXCEPT !.pc = "send", !.todo = {}, !.targets = @ \ cast[b].op.except])
  /\ CastOnly

InFlight(b) == cast[b].checking \cup cast[b].sending

\* Mutant: one target at a time.
LookupAlone(b) ==
  /\ cast[b].pc = "send" /\ cast[b].targets # {} /\ InFlight(b) = {}
  /\ LET c == Min(cast[b].targets) IN
     Set(b, [cast[b] EXCEPT !.targets = @ \ {c}, !.checking = @ \cup ({c} \cap connections)])
  /\ CastOnly

\* Mutant: the id stays among the targets.
LookupAgain(b) ==
  /\ cast[b].pc = "send" /\ cast[b].targets # {}
  /\ Limit = 0 \/ Cardinality(InFlight(b)) < Limit
  /\ LET c == Min(cast[b].targets) IN
     Set(b, [cast[b] EXCEPT !.checking = @ \cup ({c} \cap connections)])
  /\ CastOnly

\* for_each_concurrent takes the next id, in ascending order, while fewer
\* than Limit targets are in flight; an id without a connection is skipped.
Lookup(b) ==
  /\ cast[b].pc = "send" /\ cast[b].targets # {}
  /\ Limit = 0 \/ Cardinality(InFlight(b)) < Limit
  /\ LET c == Min(cast[b].targets) IN
     Set(b, [cast[b] EXCEPT !.targets = @ \ {c}, !.checking = @ \cup ({c} \cap connections)])
  /\ CastOnly

\* emit_event_message refuses a connection that is not Ready; a Disconnect
\* packet is sent whatever the state.
Check(b, c) ==
  /\ c \in cast[b].checking /\ cast[b].kind # "close"
  /\ Set(b, [cast[b] EXCEPT !.checking = @ \ {c},
                            !.sending = IF cast[b].kind = "disconnect" \/ state[c] = "Ready"
                                          THEN @ \cup {c} ELSE @])
  /\ CastOnly

\* connection.close(): Closing; its Close frame waits for nothing.
CheckClose(b, c) ==
  /\ c \in cast[b].checking /\ cast[b].kind = "close"
  /\ Set(b, [cast[b] EXCEPT !.checking = @ \ {c}, !.got = @ \cup {c}])
  /\ state' = [state EXCEPT ![c] = "Closing"]
  /\ UNCHANGED <<inserting, cleaning, connections, connectionIds, rooms>>

\* message_tx.send().await: there is room in the channel, sooner or later
\* unless the peer has stopped reading, ...
SendMessage(b, c) ==
  /\ c \in cast[b].sending
  /\ Set(b, [cast[b] EXCEPT !.sending = @ \ {c}, !.got = @ \cup {c}])
  /\ CastOnly

\* ... and fails when the receiver is gone, which the broadcast ignores.
SendFails(b, c) ==
  /\ c \in cast[b].sending /\ cleaning[c] # "no"
  /\ Set(b, [cast[b] EXCEPT !.sending = @ \ {c}])
  /\ CastOnly

Finish(b) ==
  /\ cast[b].pc = "send" /\ cast[b].targets \cup InFlight(b) = {}
  /\ Set(b, [cast[b] EXCEPT !.pc = "done"])
  /\ CastOnly

Return(b) == cast[b].pc = "done" /\ Set(b, IdleCast) /\ CastOnly

-----------------------------------------------------------------------------
(***************************************************************************)
(* History: what was true at some moment, or at every moment, of a         *)
(* broadcast.                                                              *)
(***************************************************************************)
\* c is served for its membership of r (or as any connection, NoRoom).
InTarget(b, c, r) ==
  LET include == cast[b].op.include IN
  IF r = NoRoom THEN include = {} /\ c \in connectionIds ELSE r \in include /\ c \in rooms[r]

Spared(b, c) == c \in cast[b].op.except \/ \E x \in cast[b].op.exclude : c \in rooms[x]

\* Nothing stands in the way of serving c for r.
Eligible(b, c, r) ==
  /\ InTarget(b, c, r) /\ ~ Spared(b, c)
  /\ c \in connections /\ state[c] = "Ready" /\ cleaning[c] = "no"

Observe(b) ==
  LET old == IF cast[b].pc = "idle" THEN [NothingSeen EXCEPT !.stable = Pairs] ELSE seen[b]
  IN CASE cast'[b].pc = "idle" -> NothingSeen
       [] cast'[b].pc = "done" -> seen[b]
       [] OTHER ->
          [stable |-> {p \in old.stable : p[1] \in cast'[b].got \/ Eligible(b, p[1], p[2])'},
           in |-> old.in \cup {p[1] : p \in {q \in Pairs : InTarget(b, q[1], q[2])'}},
           out |-> old.out \cup {p \in Conns \X cast'[b].op.exclude : p[1] \notin rooms'[p[2]]}]

-----------------------------------------------------------------------------
ConnStep(c) ==
  \/ Ready(c) \/ InsertConnection(c) \/ CleanupClosing(c) \/ CleanupRemoveConnection(c)

Collect(b) == Include(b) \/ BeginExclude(b) \/ Exclude(b) \/ BeginSend(b)
Serve(b, c) == Check(b, c) \/ CheckClose(b, c)
Send(b, c) == SendMessage(b, c) \/ SendFails(b, c)

CastStep(b) ==
  \/ \E kind \in Kinds, op \in Operators : Start(b, kind, op)
  \/ Collect(b) \/ Lookup(b) \/ (\E c \in Conns : Serve(b, c) \/ Send(b, c)) \/ Finish(b) \/ Return(b)

Next ==
  /\ \/ \E c \in Conns : ConnStep(c)
     \/ \E c \in Movers, r \in Rooms : EnterRoom(c, r) \/ ExitRoom(c, r)
     \/ \E b \in Casts : CastStep(b)
  /\ seen' = [b \in Casts |-> Observe(b)]

Spec == Init /\ [][Next]_vars

(***************************************************************************)
(* Fairness: a broadcast's task is polled while it can go on, and the      *)
(* writer of a connection whose peer reads makes room in its channel.      *)
(* Nothing is assumed of the other peers, nor of what the application      *)
(* calls.                                                                  *)
(***************************************************************************)
Fairness ==
  /\ \A b \in Casts : WF_vars((Collect(b) \/ Lookup(b)) /\ Next)
  /\ \A b \in Casts, c \in Conns : WF_vars(Serve(b, c) /\ Next)
  /\ \A b \in Casts, c \in Conns \ Stalled : WF_vars(Send(b, c) /\ Next)

FairSpec == Spec /\ Fairness

-----------------------------------------------------------------------------
(***************************************************************************)
(* Properties.                                                             *)
(***************************************************************************)
\* A broadcast reaches every connection that was Ready, registered, a member
\* of one same included room and outside every excluded one from its start
\* until it was served, although its targets are read map by map.
StableMemberReached ==
  \A b \in Casts : cast[b].pc = "done" => \A p \in seen[b].stable : p[1] \in cast[b].got

\* A broadcast reaches nobody it was not meant for: never the connection
\* whose to() or except() it is, nobody that was in no included room, and
\* nobody that was in an excluded room, all the time it ran.
OutsiderSpared ==
  \A b \in Casts : cast[b].pc \in {"send", "done"} =>
    \A c \in cast[b].got :
      /\ c \notin cast[b].op.except /\ c \in seen[b].in
      /\ \A x \in cast[b].op.exclude : <<c, x>> \in seen[b].out

\* A broadcast with a broadcast_concurrency_limit has no more than that many
\* targets in flight, however often one that was served makes room for the next.
ConcurrencyBounded ==
  Limit # 0 => \A b \in Casts : IsFiniteSet(InFlight(b)) /\ Cardinality(InFlight(b)) <= Limit

\* A peer that stops reading delays only itself, as long as there are fewer
\* of them than broadcast_concurrency_limit: every other target is served.
StallsDelayOnlyThemselves ==
  (Limit = 0 \/ Cardinality(Stalled) < Limit) =>
    \A b \in Casts, c \in Conns \ Stalled :
      (cast[b].pc = "send" /\ c \in cast[b].targets) ~> c \notin cast[b].targets \cup InFlight(b)

=============================================================================
