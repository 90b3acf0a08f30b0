--------------------------------- MODULE Rooms ---------------------------------
(***************************************************************************)
(* The rooms of a wsio-server namespace (join(), leave() and the room part *)
(* of cleanup() of connection/mod.rs, add_connection_id_to_room and        *)
(* remove_connection_id_from_room of namespace/mod.rs), with several       *)
(* connections at once.                                                    *)
(*                                                                         *)
(* namespace.rooms maps a name to a bitmap of connection ids; every access *)
(* to an entry is a step.  A connection keeps the rooms it joined in       *)
(* joined_rooms.  Its handlers run in tasks of their own (spawn_task), so  *)
(* that several join() and leave() calls of one connection are in progress *)
(* at a time, also while and after the driver runs cleanup().              *)
(***************************************************************************)
EXTENDS Integers, FiniteSets

CONSTANTS
  Conns,      \* connections of the namespace
  Tasks,      \* per connection, the tasks that join and leave
  Rooms       \* room names

VARIABLES
  cleaning,   \* per connection, where the room part of cleanup is
  leaving,    \* cleanup's snapshot of joined_rooms still to be left
  dropping,   \* the room cleanup has left and not yet looked at again
  bitmap,     \* the ids in every room's bitmap
  present,    \* the rooms that have an entry in namespace.rooms
  joined,     \* joined_rooms of every connection
  call,       \* per connection and task, the join() or leave() in progress
  raced,      \* history: rooms a join() and a leave() of the connection overlapped
              \* on, until another call has them to itself
  late        \* history: rooms joined after cleanup's snapshot

cleanupVars == <<cleaning, leaving, dropping>>
roomsVars == <<cleanupVars, bitmap, present, joined, call, raced, late>>

NoRoom == "none"
AnyRoom == Rooms \cup {NoRoom}
At(pc, r) == [pc |-> pc, room |-> r]
Returned == At("idle", NoRoom)

ASSUME RoomsAssumption == NoRoom \notin Rooms

CallTypeOK ==
  call \in [Conns -> [Tasks ->
    [pc : {"join_record", "leave_remove_if", "leave_record"}, room : Rooms] \cup {Returned}]]

\* Every variable has its type, and a room with members has an entry.
RoomsTypeOK ==
  /\ cleaning \in [Conns -> {"up", "leave", "done"}]
  /\ leaving \in [Conns -> SUBSET Rooms] /\ dropping \in [Conns -> AnyRoom]
  /\ bitmap \in [Rooms -> SUBSET Conns] /\ present \subseteq Rooms
  /\ joined \in [Conns -> SUBSET Rooms]
  /\ raced \in [Conns -> SUBSET Rooms] /\ late \in [Conns -> SUBSET Rooms]
  /\ CallTypeOK
  /\ \A r \in Rooms : bitmap[r] # {} => r \in present

RoomsInit ==
  /\ cleaning = [c \in Conns |-> "up"] /\ leaving = [c \in Conns |-> {}]
  /\ dropping = [c \in Conns |-> NoRoom]
  /\ bitmap = [r \in Rooms |-> {}] /\ present = {}
  /\ joined = [c \in Conns |-> {}]
  /\ raced = [c \in Conns |-> {}] /\ late = [c \in Conns |-> {}]
  /\ call = [c \in Conns |-> [t \in Tasks |-> Returned]]

\* Connection c is inside join(r), inside leave(r).
Joins(c, r) == \E t \in Tasks : call[c][t] = At("join_record", r)
Leaves(c, r) ==
  \E t \in Tasks : call[c][t] \in {At("leave_remove_if", r), At("leave_record", r)}

-----------------------------------------------------------------------------
\* The snapshot of joined_rooms; a join() between its halves is not in it.
CleanupSnapshot(c) ==
  /\ cleaning[c] = "up" /\ cleaning' = [cleaning EXCEPT ![c] = "leave"]
  /\ leaving' = [leaving EXCEPT ![c] = joined[c]]
  /\ late' = [late EXCEPT ![c] = {r \in Rooms : Joins(c, r)} \ joined[c]]
  /\ UNCHANGED <<dropping, bitmap, present, joined, call, raced>>

\* The first half of remove_connection_id_from_room: the bitmap.
RemoveFromRoom(r, c) == bitmap' = [bitmap EXCEPT ![r] = @ \ {c}] /\ UNCHANGED present

\* Mutant: the entry goes without a second look at it.
RemoveRoom(r) == bitmap' = [bitmap EXCEPT ![r] = {}] /\ present' = present \ {r}

\* Mutant: the same, as seen by a join() that holds the entry.
RemoveEntry(r) == present' = present \ {r} /\ UNCHANGED bitmap

\* Its second half, remove_if: the entry goes if it is empty now.
RemoveIfEmpty(r) ==
  present' = (IF bitmap[r] = {} THEN present \ {r} ELSE present) /\ UNCHANGED bitmap

\* Mutant: cleanup only clears the bitmaps.
CleanupKeepsEntries(c) ==
  /\ cleaning[c] = "leave" /\ UNCHANGED <<dropping, call, raced, late>>
  /\ \/ \E r \in leaving[c] : leaving' = [leaving EXCEPT ![c] = @ \ {r}]
                              /\ RemoveFromRoom(r, c) /\ UNCHANGED <<cleaning, joined>>
     \/ /\ leaving[c] = {} /\ cleaning' = [cleaning EXCEPT ![c] = "done"]
        /\ joined' = [joined EXCEPT ![c] = {}] /\ UNCHANGED <<leaving, bitmap, present>>

\* One room of the snapshot after the other, in two steps each; then
\* joined_rooms is cleared.
CleanupLeaveRooms(c) ==
  /\ cleaning[c] = "leave" /\ UNCHANGED <<call, raced, late>>
  /\ \/ \E r \in leaving[c] :
          /\ dropping[c] = NoRoom /\ dropping' = [dropping EXCEPT ![c] = r]
          /\ leaving' = [leaving EXCEPT ![c] = @ \ {r}]
          /\ RemoveFromRoom(r, c) /\ UNCHANGED <<cleaning, joined>>
     \/ /\ dropping[c] # NoRoom /\ dropping' = [dropping EXCEPT ![c] = NoRoom]
        /\ RemoveIfEmpty(dropping[c]) /\ UNCHANGED <<cleaning, leaving, joined>>
     \/ /\ leaving[c] = {} /\ dropping[c] = NoRoom
        /\ cleaning' = [cleaning EXCEPT ![c] = "done"]
        /\ joined' = [joined EXCEPT ![c] = {}]
        /\ UNCHANGED <<leaving, dropping, bitmap, present>>

-----------------------------------------------------------------------------
(***************************************************************************)
(* join() and leave(), at any time: neither looks at `state`.              *)
(***************************************************************************)
Called(c, t, pc, r) ==
  call[c][t].pc = "idle" /\ call' = [call EXCEPT ![c][t] = At(pc, r)]

\* The history: a call on r begins while one of the other kind is, or is not,
\* in progress.  A call that has the room to itself settles it.
Overlaps(c, r, other) ==
  raced' = [raced EXCEPT ![c] =
              IF cleaning[c] # "up" THEN @
              ELSE IF other THEN @ \cup {r}
              ELSE IF Joins(c, r) \/ Leaves(c, r) THEN @ ELSE @ \ {r}]

\* add_connection_id_to_room holds the entry while it inserts.
Join(c, t, r) ==
  /\ Called(c, t, "join_record", r) /\ Overlaps(c, r, Leaves(c, r))
  /\ bitmap' = [bitmap EXCEPT ![r] = @ \cup {c}] /\ present' = present \cup {r}
  /\ late' = [late EXCEPT ![c] = IF cleaning[c] = "up" THEN @ ELSE @ \cup {r}]
  /\ UNCHANGED <<cleanupVars, joined>>

Returns(c, t) == call' = [call EXCEPT ![c][t] = Returned] /\ UNCHANGED <<raced, late>>

JoinRecord(c, t) ==
  /\ call[c][t].pc = "join_record" /\ Returns(c, t)
  /\ joined' = [joined EXCEPT ![c] = @ \cup {call[c][t].room}]
  /\ UNCHANGED <<cleanupVars, bitmap, present>>

\* Mutant: leave() forgets the bitmap.
LeaveKeepsMember(c, t, r) ==
  /\ Called(c, t, "leave_record", r) /\ Overlaps(c, r, Joins(c, r))
  /\ UNCHANGED <<cleanupVars, bitmap, present, joined, late>>

Leave(c, t, r) ==
  /\ Called(c, t, "leave_remove_if", r) /\ Overlaps(c, r, Joins(c, r))
  /\ RemoveFromRoom(r, c)
  /\ UNCHANGED <<cleanupVars, joined, late>>

LeaveRemoveIf(c, t) ==
  /\ call[c][t].pc = "leave_remove_if"
  /\ call' = [call EXCEPT ![c][t] = At("leave_record", call[c][t].room)]
  /\ RemoveIfEmpty(call[c][t].room)
  /\ UNCHANGED <<cleanupVars, joined, raced, late>>

LeaveRecord(c, t) ==
  /\ call[c][t].pc = "leave_record" /\ Returns(c, t)
  /\ joined' = [joined EXCEPT ![c] = @ \ {call[c][t].room}]
  /\ UNCHANGED <<cleanupVars, bitmap, present>>

-----------------------------------------------------------------------------
Cleanup(c) == CleanupSnapshot(c) \/ CleanupLeaveRooms(c)

Call(c, t) ==
  \/ JoinRecord(c, t) \/ LeaveRemoveIf(c, t) \/ LeaveRecord(c, t)
  \/ \E r \in Rooms : Join(c, t, r) \/ Leave(c, t, r)

RoomsNext == \E c \in Conns : Cleanup(c) \/ \E t \in Tasks : Call(c, t)

RoomsSpec == RoomsInit /\ [][RoomsNext]_roomsVars

-----------------------------------------------------------------------------
(***************************************************************************)
(* Properties.                                                             *)
(***************************************************************************)
\* A connection is in every room its joined_rooms names and it is not
\* leaving, however the room's other members come and go: remove_if never
\* takes an entry away from a join() that came between the halves of
\* remove_connection_id_from_room.  The one exception is a room on which a
\* join() and a leave() of the connection itself have overlapped.
JoinedMeansMember ==
  \A c \in Conns : \A r \in joined[c] \ raced[c] :
    cleaning[c] = "up" /\ ~ Leaves(c, r) => r \in present /\ c \in bitmap[r]

\* An empty room keeps its entry only while a leave() or a cleanup() is
\* about to look at it again: rooms do not pile up in namespace.rooms.
NoEmptyRoomLeak ==
  \A r \in present : bitmap[r] = {} =>
    \E c \in Conns : \/ dropping[c] = r
                     \/ \E t \in Tasks : call[c][t] = At("leave_remove_if", r)

\* A connection that is cleaned up is in no room, except one it joined while
\* or after cleanup() took its snapshot of joined_rooms, or on which its own
\* join() and leave() had overlapped.
CleanupLeavesRooms ==
  \A c \in Conns, r \in Rooms :
    cleaning[c] = "done" /\ r \notin late[c] \cup raced[c] => c \notin bitmap[r]

=============================================================================
