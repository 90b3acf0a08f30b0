---------------------------- MODULE NamespaceProofs ----------------------------
(***************************************************************************)
(* Theorems about what belongs to a namespace: its rooms (Rooms), for      *)
(* every set of connections and of rooms, and its settings and the         *)
(* sessions that are opened with them (Setup), for every set of settings,  *)
(* paths, URLs and requests.                                               *)
(*                                                                         *)
(* JoinedMeansMember and CleanupLeavesRooms are not inductive: a join() or *)
(* leave() changes the bitmap and joined_rooms in separate steps, and so   *)
(* does cleanup().  RoomsInv says how far apart the two may be at each     *)
(* point of those calls.                                                   *)
(*                                                                         *)
(* OverridesAreLocal needs the same of the builder a namespace is made     *)
(* of, and that the server's settings are final by then (SettingsInv).     *)
(* CodecsAgree needs to know which side encoded the packet on a link and   *)
(* with which codec (LinkInv).                                             *)
(***************************************************************************)
EXTENDS Rooms, Setup, TLAPS

-----------------------------------------------------------------------------
(***************************************************************************)
(* The rooms.                                                              *)
(***************************************************************************)
\* Until cleanup begins, a room on which no join() and leave() of the connection
\* have overlapped is in the bitmaps and in joined_rooms or in neither, but
\* for the halves of the connection's own calls.
UpInv(c, r) ==
  cleaning[c] = "up" /\ r \notin raced[c] =>
    /\ ~ (Joins(c, r) /\ Leaves(c, r))
    /\ Joins(c, r) => c \in bitmap[r]
    /\ Leaves(c, r) => c \notin bitmap[r]
    /\ c \in bitmap[r] /\ ~ Joins(c, r) => r \in joined[c]
    /\ r \in joined[c] /\ ~ Leaves(c, r) => c \in bitmap[r]

\* From cleanup's snapshot on, every such room that holds the connection is
\* still in the snapshot, or was joined late.
LeaveInv(c, r) ==
  /\ cleaning[c] # "up" /\ c \in bitmap[r] => r \in late[c] \cup raced[c] \cup leaving[c]
  /\ cleaning[c] = "done" => leaving[c] = {}

\* The inductive invariant.
RoomsInv == \A c \in Conns, r \in Rooms : UpInv(c, r) /\ LeaveInv(c, r)

USE DEF cleanupVars, AnyRoom, At, Returned

\* What a step of a call leaves in `call`.
LEMMA CallTyped ==
  ASSUME CallTypeOK, NEW c \in Conns, NEW t \in Tasks, NEW new,
         new = Returned \/ \E r \in Rooms : new \in {At("join_record", r), At("leave_remove_if", r),
                                                   At("leave_record", r)},
         call' = [call EXCEPT ![c][t] = new]
  PROVE  CallTypeOK'
<1> DEFINE X == [pc : {"join_record", "leave_remove_if", "leave_record"}, room : Rooms] \cup {Returned}
<1>1. new \in X
  OBVIOUS
<1> HIDE DEF X
<1>2. call \in [Conns -> [Tasks -> X]]
  BY DEF CallTypeOK, X
<1>3. call' \in [Conns -> [Tasks -> X]]
  BY <1>1, <1>2
<1> QED  BY <1>3 DEF CallTypeOK, X

LEMMA CallStays == ASSUME CallTypeOK, call' = call PROVE CallTypeOK'
BY DEF CallTypeOK

LEMMA CallKnown ==
  ASSUME CallTypeOK, NEW c \in Conns, NEW t \in Tasks, call[c][t].pc # "idle"
  PROVE  call[c][t].room \in Rooms /\ call[c][t] = At(call[c][t].pc, call[c][t].room)
BY DEF CallTypeOK

\* No step breaks the types; remove_if only takes an empty room's entry.
THEOREM RoomsTypeCorrect == RoomsSpec => []RoomsTypeOK
<1>1. RoomsInit => RoomsTypeOK
  BY DEF RoomsInit, RoomsTypeOK, CallTypeOK
<1>2. RoomsTypeOK /\ [RoomsNext]_roomsVars => RoomsTypeOK'
  <2> SUFFICES ASSUME RoomsTypeOK, [RoomsNext]_roomsVars PROVE RoomsTypeOK'
    OBVIOUS
  <2> USE CallStays DEF RoomsTypeOK
  <2>1. ASSUME NEW c \in Conns, CleanupSnapshot(c) PROVE RoomsTypeOK'
    BY <2>1 DEF CleanupSnapshot
  <2>2. ASSUME NEW c \in Conns, CleanupLeaveRooms(c) PROVE RoomsTypeOK'
    BY <2>2 DEF CleanupLeaveRooms, RemoveFromRoom, RemoveIfEmpty
  <2>3. ASSUME NEW c \in Conns, NEW t \in Tasks, NEW r \in Rooms, Join(c, t, r) \/ Leave(c, t, r)
        PROVE  RoomsTypeOK'
    <3>1. CASE Join(c, t, r)
      BY <3>1, CallTyped DEF Join, Called, Overlaps
    <3>2. CASE Leave(c, t, r)
      BY <3>2, CallTyped DEF Leave, Called, Overlaps, RemoveFromRoom
    <3> QED  BY <2>3, <3>1, <3>2
  <2>4. ASSUME NEW c \in Conns, NEW t \in Tasks, JoinRecord(c, t) \/ LeaveRecord(c, t)
        PROVE  RoomsTypeOK'
    <3>1. CallTypeOK' /\ call[c][t].room \in Rooms
      BY <2>4, CallTyped, CallKnown DEF JoinRecord, LeaveRecord, Returns
    <3> QED  BY <2>4, <3>1 DEF JoinRecord, LeaveRecord, Returns
  <2>5. ASSUME NEW c \in Conns, NEW t \in Tasks, LeaveRemoveIf(c, t) PROVE RoomsTypeOK'
    <3>1. CallTypeOK' /\ call[c][t].room \in Rooms
      BY <2>5, CallTyped, CallKnown DEF LeaveRemoveIf
    <3> QED  BY <2>5, <3>1 DEF LeaveRemoveIf, RemoveIfEmpty
  <2>6. CASE UNCHANGED roomsVars
    BY <2>6 DEF roomsVars
  <2> QED  BY <2>1, <2>2, <2>3, <2>4, <2>5, <2>6 DEF RoomsNext, Cleanup, Call
<1> QED  BY <1>1, <1>2, PTL DEF RoomsSpec

\* What a call of task t does to the calls in progress on a room.
LEMMA CallsStep ==
  ASSUME RoomsTypeOK, NEW c \in Conns, NEW t \in Tasks, NEW new,
         call' = [call EXCEPT ![c][t] = new],
         NEW d \in Conns, NEW r \in Rooms
  PROVE  /\ d # c => (Joins(d, r)' <=> Joins(d, r)) /\ (Leaves(d, r)' <=> Leaves(d, r))
         /\ Joins(c, r)' <=> (\/ new = At("join_record", r)
                              \/ \E u \in Tasks \ {t} : call[c][u] = At("join_record", r))
         /\ Leaves(c, r)' <=>
              (\/ new \in {At("leave_remove_if", r), At("leave_record", r)}
               \/ \E u \in Tasks \ {t} :
                    call[c][u] \in {At("leave_remove_if", r), At("leave_record", r)})
<1>1. \A u \in Tasks : call'[c][u] = IF u = t THEN new ELSE call[c][u]
  BY DEF RoomsTypeOK, CallTypeOK
<1>2. d # c => call'[d] = call[d]
  BY DEF RoomsTypeOK, CallTypeOK
<1> QED  BY <1>1, <1>2 DEF Joins, Leaves

\* A step of a connection does not change the other connections' part of the
\* invariant, and its own part is preserved call by call.
LEMMA RoomsStep == RoomsTypeOK /\ RoomsInv /\ [RoomsNext]_roomsVars => RoomsInv'
<1> SUFFICES ASSUME RoomsTypeOK, RoomsInv, [RoomsNext]_roomsVars,
                    NEW d \in Conns, NEW q \in Rooms
             PROVE  (UpInv(d, q) /\ LeaveInv(d, q))'
  BY DEF RoomsInv
<1>0. UpInv(d, q) /\ LeaveInv(d, q)
  BY DEF RoomsInv
<1> USE DEF UpInv, LeaveInv
<1>1. ASSUME NEW c \in Conns, Cleanup(c) PROVE (UpInv(d, q) /\ LeaveInv(d, q))'
  <2>1. (Joins(d, q)' <=> Joins(d, q)) /\ (Leaves(d, q)' <=> Leaves(d, q))
    BY <1>1 DEF Cleanup, CleanupSnapshot, CleanupLeaveRooms, Joins, Leaves
  <2>2. CASE CleanupSnapshot(c)
    BY <1>0, <2>1, <2>2 DEF CleanupSnapshot, RoomsTypeOK
  <2>3. CASE CleanupLeaveRooms(c)
    BY <1>0, <2>1, <2>3 DEF CleanupLeaveRooms, RemoveFromRoom, RemoveIfEmpty, RoomsTypeOK
  <2> QED  BY <1>1, <2>2, <2>3 DEF Cleanup
<1>2. ASSUME NEW c \in Conns, NEW t \in Tasks, NEW r \in Rooms, Join(c, t, r)
      PROVE  (UpInv(d, q) /\ LeaveInv(d, q))'
  <2>0. call[c][t] = Returned /\ call' = [call EXCEPT ![c][t] = At("join_record", r)]
    BY <1>2 DEF Join, Called, RoomsTypeOK, CallTypeOK
  <2>1. \A e \in Conns, u \in Tasks :
          call'[e][u] = IF e = c /\ u = t THEN At("join_record", r) ELSE call[e][u]
    BY <2>0 DEF RoomsTypeOK, CallTypeOK
  <2>2. /\ d # c \/ q # r => (Joins(d, q)' <=> Joins(d, q))
        /\ d = c /\ q = r => Joins(d, q)'
        /\ (Leaves(d, q)' <=> Leaves(d, q))
    BY <2>0, <2>1 DEF Joins, Leaves
  <2> QED  BY <1>0, <1>2, <2>2 DEF Join, Overlaps, RoomsTypeOK
<1>3. ASSUME NEW c \in Conns, NEW t \in Tasks, NEW r \in Rooms, Leave(c, t, r)
      PROVE  (UpInv(d, q) /\ LeaveInv(d, q))'
  <2>0. call[c][t] = Returned /\ call' = [call EXCEPT ![c][t] = At("leave_remove_if", r)]
    BY <1>3 DEF Leave, Called, RoomsTypeOK, CallTypeOK
  <2>1. \A e \in Conns, u \in Tasks :
          call'[e][u] = IF e = c /\ u = t THEN At("leave_remove_if", r) ELSE call[e][u]
    BY <2>0 DEF RoomsTypeOK, CallTypeOK
  <2>2. /\ d # c \/ q # r => (Leaves(d, q)' <=> Leaves(d, q))
        /\ d = c /\ q = r => Leaves(d, q)'
        /\ (Joins(d, q)' <=> Joins(d, q))
    BY <2>0, <2>1 DEF Joins, Leaves
  <2> QED  BY <1>0, <1>3, <2>2 DEF Leave, Overlaps, RemoveFromRoom, RoomsTypeOK
<1>4. ASSUME NEW c \in Conns, NEW t \in Tasks, JoinRecord(c, t)
      PROVE  (UpInv(d, q) /\ LeaveInv(d, q))'
  <2>1. /\ call[c][t] = At("join_record", call[c][t].room)
        /\ call' = [call EXCEPT ![c][t] = Returned]
    BY <1>4 DEF JoinRecord, Returns, RoomsTypeOK, CallTypeOK
  <2>2. /\ d # c \/ q # call[c][t].room => (Joins(d, q)' <=> Joins(d, q))
        /\ d = c /\ q = call[c][t].room => Joins(d, q)
        /\ (Leaves(d, q)' <=> Leaves(d, q))
        /\ Joins(d, q)' => Joins(d, q)
    BY <2>1, CallsStep DEF Joins, Leaves
  <2> QED  BY <1>0, <1>4, <2>2 DEF JoinRecord, Returns, RoomsTypeOK
<1>5. ASSUME NEW c \in Conns, NEW t \in Tasks, LeaveRemoveIf(c, t)
      PROVE  (UpInv(d, q) /\ LeaveInv(d, q))'
  <2>1. /\ call[c][t] = At("leave_remove_if", call[c][t].room)
        /\ call' = [call EXCEPT ![c][t] = At("leave_record", call[c][t].room)]
    BY <1>5 DEF LeaveRemoveIf, RoomsTypeOK, CallTypeOK
  <2>2. (Joins(d, q)' <=> Joins(d, q)) /\ (Leaves(d, q)' <=> Leaves(d, q))
    BY <2>1, CallsStep DEF Joins, Leaves
  <2> QED  BY <1>0, <1>5, <2>2 DEF LeaveRemoveIf, RemoveIfEmpty, RoomsTypeOK
<1>6. ASSUME NEW c \in Conns, NEW t \in Tasks, LeaveRecord(c, t)
      PROVE  (UpInv(d, q) /\ LeaveInv(d, q))'
  <2>1. /\ call[c][t] = At("leave_record", call[c][t].room)
        /\ call' = [call EXCEPT ![c][t] = Returned]
    BY <1>6 DEF LeaveRecord, Returns, RoomsTypeOK, CallTypeOK
  <2>2. /\ d # c \/ q # call[c][t].room => (Leaves(d, q)' <=> Leaves(d, q))
        /\ d = c /\ q = call[c][t].room => Leaves(d, q)
        /\ (Joins(d, q)' <=> Joins(d, q))
        /\ Leaves(d, q)' => Leaves(d, q)
    BY <2>1, CallsStep DEF Joins, Leaves
  <2> QED  BY <1>0, <1>6, <2>2 DEF LeaveRecord, Returns, RoomsTypeOK
<1>7. CASE UNCHANGED roomsVars
  BY <1>0, <1>7 DEF roomsVars, Joins, Leaves
<1> QED  BY <1>1, <1>2, <1>3, <1>4, <1>5, <1>6, <1>7 DEF RoomsNext, Call

LEMMA RoomsCorrect == RoomsSpec => []RoomsInv
<1>1. RoomsInit => RoomsInv
  BY DEF RoomsInit, RoomsInv, UpInv, LeaveInv, Joins, Leaves
<1> QED  BY <1>1, RoomsStep, RoomsTypeCorrect, PTL DEF RoomsSpec

\* A connection is a member of every room it has joined and not begun to
\* leave, unless its own calls raced on that room: join() and
\* remove_connection_id_from_room of other connections never cost it its
\* place, however many of its tasks join and leave at once.
THEOREM MembershipCorrect == RoomsSpec => []JoinedMeansMember
<1>1. RoomsTypeOK /\ RoomsInv => JoinedMeansMember
  BY DEF RoomsTypeOK, RoomsInv, UpInv, JoinedMeansMember
<1> QED  BY <1>1, RoomsCorrect, RoomsTypeCorrect, PTL

\* A connection is in no room once cleanup() is done with it, but for the
\* rooms it joined during or after cleanup() and those its calls raced on.
THEOREM CleanedUpLeftRooms == RoomsSpec => []CleanupLeavesRooms
<1>1. RoomsInv => CleanupLeavesRooms
  BY DEF RoomsInv, LeaveInv, CleanupLeavesRooms
<1> QED  BY <1>1, RoomsCorrect, PTL

-----------------------------------------------------------------------------
\* Connection c is between the halves of remove_connection_id_from_room for r.
LooksAgain(c, r) ==
  dropping[c] = r \/ \E t \in Tasks : call[c][t] = At("leave_remove_if", r)

\* A call's step ends the promise of a second look only where it has looked.
LEMMA LooksStay ==
  ASSUME RoomsTypeOK, NEW c \in Conns, NEW t \in Tasks, NEW new,
         call' = [call EXCEPT ![c][t] = new], dropping' = dropping,
         NEW d \in Conns, NEW r \in Rooms, LooksAgain(d, r),
         call[c][t] # At("leave_remove_if", r)
  PROVE  LooksAgain(d, r)'
<1>1. \A u \in Tasks : call'[d][u] = IF d = c /\ u = t THEN new ELSE call[d][u]
  BY DEF RoomsTypeOK, CallTypeOK
<1> QED  BY <1>1 DEF LooksAgain

\* An empty room's entry is always about to be looked at again by a leave()
\* or a cleanup() in its second half (remove_if): whoever empties a bitmap
\* says so in the same step, and only remove_if ends the promise.
THEOREM EmptyRoomsGo == RoomsSpec => []NoEmptyRoomLeak
<1>1. RoomsInit => NoEmptyRoomLeak
  BY DEF RoomsInit, NoEmptyRoomLeak
<1>2. RoomsTypeOK /\ RoomsTypeOK' /\ NoEmptyRoomLeak /\ [RoomsNext]_roomsVars => NoEmptyRoomLeak'
  <2> SUFFICES ASSUME RoomsTypeOK, RoomsTypeOK', NoEmptyRoomLeak, [RoomsNext]_roomsVars,
                      NEW r \in Rooms, r \in present', bitmap'[r] = {}
               PROVE  \E d \in Conns : LooksAgain(d, r)'
    BY DEF RoomsTypeOK, NoEmptyRoomLeak, LooksAgain
  <2> USE DEF RoomsTypeOK, LooksAgain
  <2>0. ASSUME r \in present, bitmap[r] = {} PROVE \E d \in Conns : LooksAgain(d, r)
    BY <2>0 DEF NoEmptyRoomLeak
  <2>1. ASSUME UNCHANGED <<dropping, bitmap, present, call>>
        PROVE  \E d \in Conns : LooksAgain(d, r)'
    BY <2>0, <2>1
  <2>2. ASSUME NEW c \in Conns, CleanupLeaveRooms(c) PROVE \E d \in Conns : LooksAgain(d, r)'
    <3>1. ASSUME NEW q \in leaving[c], dropping[c] = NoRoom,
                 dropping' = [dropping EXCEPT ![c] = q], RemoveFromRoom(q, c), call' = call
          PROVE  \E d \in Conns : LooksAgain(d, r)'
      <4>1. CASE q = r
        BY <3>1, <4>1
      <4>2. CASE q # r
        <5>1. r \in present /\ bitmap[r] = {}
          BY <3>1, <4>2 DEF RemoveFromRoom
        <5>2. PICK d \in Conns : LooksAgain(d, r)
          BY <2>0, <5>1
        <5> QED  BY <3>1, <5>2, RoomsAssumption
      <4> QED  BY <4>1, <4>2
    <3>2. ASSUME dropping[c] # NoRoom, dropping' = [dropping EXCEPT ![c] = NoRoom],
                 RemoveIfEmpty(dropping[c]), call' = call
          PROVE  \E d \in Conns : LooksAgain(d, r)'
      <4>1. r \in present /\ bitmap[r] = {} /\ r # dropping[c]
        BY <3>2 DEF RemoveIfEmpty
      <4>2. PICK d \in Conns : LooksAgain(d, r)
        BY <2>0, <4>1
      <4> QED  BY <3>2, <4>1, <4>2
    <3> QED  BY <2>1, <2>2, <3>1, <3>2 DEF CleanupLeaveRooms
  <2>3. ASSUME NEW c \in Conns, NEW t \in Tasks, NEW q \in Rooms, Join(c, t, q)
        PROVE  \E d \in Conns : LooksAgain(d, r)'
    <3>1. r \in present /\ bitmap[r] = {} /\ q # r
      BY <2>3 DEF Join
    <3>2. PICK d \in Conns : LooksAgain(d, r)
      BY <2>0, <3>1
    <3>3. /\ call' = [call EXCEPT ![c][t] = At("join_record", q)] /\ dropping' = dropping
          /\ call[c][t] # At("leave_remove_if", r)
      BY <2>3 DEF Join, Called
    <3> QED  BY <3>2, <3>3, LooksStay
  <2>4. ASSUME NEW c \in Conns, NEW t \in Tasks, NEW q \in Rooms, Leave(c, t, q)
        PROVE  \E d \in Conns : LooksAgain(d, r)'
    <3>0. /\ call' = [call EXCEPT ![c][t] = At("leave_remove_if", q)] /\ dropping' = dropping
          /\ call[c][t] # At("leave_remove_if", r)
      BY <2>4 DEF Leave, Called
    <3>1. CASE q = r
      <4>1. call'[c][t] = At("leave_remove_if", r)
        BY <3>0, <3>1 DEF CallTypeOK
      <4> QED  BY <4>1
    <3>2. CASE q # r
      <4>1. r \in present /\ bitmap[r] = {}
        BY <2>4, <3>2 DEF Leave, RemoveFromRoom
      <4>2. PICK d \in Conns : LooksAgain(d, r)
        BY <2>0, <4>1
      <4> QED  BY <3>0, <4>2, LooksStay
    <3> QED  BY <3>1, <3>2
  <2>5. ASSUME NEW c \in Conns, NEW t \in Tasks, JoinRecord(c, t) \/ LeaveRecord(c, t)
        PROVE  \E d \in Conns : LooksAgain(d, r)'
    <3>1. PICK d \in Conns : LooksAgain(d, r)
      BY <2>0, <2>5 DEF JoinRecord, LeaveRecord
    <3>2. /\ call' = [call EXCEPT ![c][t] = Returned] /\ dropping' = dropping
          /\ call[c][t] # At("leave_remove_if", r)
      BY <2>5 DEF JoinRecord, LeaveRecord, Returns
    <3> QED  BY <3>1, <3>2, LooksStay
  <2>6. ASSUME NEW c \in Conns, NEW t \in Tasks, LeaveRemoveIf(c, t)
        PROVE  \E d \in Conns : LooksAgain(d, r)'
    <3>1. r \in present /\ bitmap[r] = {} /\ r # call[c][t].room
      BY <2>6 DEF LeaveRemoveIf, RemoveIfEmpty
    <3>2. PICK d \in Conns : LooksAgain(d, r)
      BY <2>0, <3>1
    <3>3. /\ call' = [call EXCEPT ![c][t] = At("leave_record", call[c][t].room)]
          /\ dropping' = dropping /\ call[c][t] # At("leave_remove_if", r)
      BY <2>6, <3>1 DEF LeaveRemoveIf
    <3> QED  BY <3>2, <3>3, LooksStay
  <2> QED
    BY <2>1, <2>2, <2>3, <2>4, <2>5, <2>6 DEF RoomsNext, Cleanup, Call, CleanupSnapshot, roomsVars
<1> QED  BY <1>1, <1>2, RoomsTypeCorrect, PTL DEF RoomsSpec

-----------------------------------------------------------------------------
(***************************************************************************)
(* The settings.                                                           *)
(***************************************************************************)
\* A builder, or the namespace it became: every setting is the one it was
\* given itself, or else the server's.
BuilderInv(b) ==
  /\ b = [path |-> b.path, config |-> b.config, own |-> b.own]
  /\ b.path \in NamespacePaths
  /\ \A k \in DOMAIN b.own : k \in Settings /\ b.own[k] \in Values[k]
  /\ b.config = [k \in Settings |-> IF k \in DOMAIN b.own THEN b.own[k] ELSE config[k]]

\* The server's settings are final before the first namespace builder exists.
SettingsInv ==
  /\ config = [k \in Settings |-> config[k]] /\ \A k \in Settings : config[k] \in Values[k]
  /\ request_path \in RequestPaths \cup {WsIo} /\ built \in BOOLEAN
  /\ builder # None => built /\ BuilderInv(builder)
  /\ \A p \in DOMAIN namespaces : built /\ p \in NamespacePaths /\ BuilderInv(namespaces[p])

\* channel_capacity_from_websocket_config() is clamped whatever it is given.
LEMMA CapacityBounded ==
  ASSUME NEW ws \in Values["websocket_config"] PROVE ChannelCapacity(ws) \in Capacities
<1>1. ws.max \in Int /\ ws.write \in Int
  BY SetupAssumption
<1> QED  BY <1>1 DEF ChannelCapacity, Clamp, Capacities

\* What dispatch_request() answers, and that it upgrades to a registered
\* namespace only.
LEMMA Dispatched ==
  ASSUME NEW r, NEW registered
  PROVE  /\ DispatchRequest(r, registered).status \in {101, 400, 404, 405, 500}
         /\ DispatchRequest(r, registered).status = 101 =>
              DispatchRequest(r, registered).namespace \in registered
BY DEF DispatchRequest

\* The wire format of every codec.
LEMMA Formats ==
  /\ Format("Cbor") = "cbor" /\ Format("Msgpack") = "msgpack"
  /\ Format("Postcard") = "postcard"
  /\ Format("SerdeJson") = "json" /\ Format("SonicRs") = "json"
BY DEF Format

\* Only the two setters, new_namespace_builder() and register() touch settings,
\* and the server's setters are gone with build().
LEMMA SettingsStep == SettingsInv /\ [Next]_vars => SettingsInv'
<1> SUFFICES ASSUME SettingsInv, [Next]_vars PROVE SettingsInv'
  OBVIOUS
<1> USE SetupAssumption DEF SettingsInv, BuilderInv, server, spaces, net
<1>1. ASSUME NEW k \in Settings, NEW v \in Values[k], ServerSet(k, v) PROVE SettingsInv'
  BY <1>1 DEF ServerSet
<1>2. ASSUME NEW k \in Settings, NEW v \in Values[k], NamespaceSet(k, v) PROVE SettingsInv'
  <2>1. builder # None /\ built /\ BuilderInv(builder)
    BY <1>2 DEF NamespaceSet
  <2>2. builder' = [path |-> builder.path, config |-> [builder.config EXCEPT ![k] = v],
                    own |-> With(builder.own, k, v)]
    BY <1>2, <2>1 DEF NamespaceSet
  <2>3. UNCHANGED <<server, namespaces>>
    BY <1>2 DEF NamespaceSet
  <2>4. BuilderInv(builder)'
    BY <2>1, <2>2, <2>3 DEF With
  <2> QED  BY <2>1, <2>3, <2>4
<1>3. ASSUME NEW p \in RequestPaths, ServerRequestPath(p) PROVE SettingsInv'
  BY <1>3 DEF ServerRequestPath
<1>4. ASSUME NEW p \in NamespacePaths, NewNamespaceBuilder(p) PROVE SettingsInv'
  <2>1. /\ built /\ UNCHANGED <<server, namespaces>>
        /\ builder' = [path |-> p, config |-> config, own |-> <<>>]
    BY <1>4 DEF NewNamespaceBuilder
  <2>2. DOMAIN builder'.own = {}
    BY <2>1
  <2>3. config = [k \in Settings |-> config[k]]
    OBVIOUS
  <2>4. BuilderInv(builder)'
    BY <2>1, <2>2, <2>3
  <2> QED  BY <2>1, <2>4
<1>5. CASE Build
  BY <1>5 DEF Build
<1>6. CASE Register
  <2>1. /\ builder # None /\ built /\ BuilderInv(builder) /\ builder' = None
        /\ UNCHANGED server
    BY <1>6 DEF Register
  <2>2. CASE namespaces' = namespaces
    BY <2>1, <2>2
  <2>3. CASE namespaces' = With(namespaces, builder.path, builder)
    <3>1. \A p \in DOMAIN namespaces' :
            \/ namespaces'[p] = builder /\ p = builder.path
            \/ p \in DOMAIN namespaces /\ namespaces'[p] = namespaces[p]
      BY <2>3 DEF With
    <3> QED  BY <2>1, <3>1
  <2> QED  BY <1>6, <2>2, <2>3 DEF Register
<1>7. ASSUME UNCHANGED <<server, spaces>> PROVE SettingsInv'
  BY <1>7
<1>8. ASSUME NEW url \in Urls, ClientBuild(url) PROVE SettingsInv'
  BY <1>7, <1>8 DEF ClientBuild
<1>9. CASE Connect \/ Serve \/ \E r \in Foreign : ForeignRequest(r)
  BY <1>7, <1>9 DEF Connect, Serve, ForeignRequest
<1>10. CASE ClientReadsInit \/ ServerReadsInit \/ ClientReads \/ ServerSends \/ UNCHANGED vars
  BY <1>7, <1>10 DEF ClientReadsInit, ServerReadsInit, ClientReads, ServerSends, vars
<1> QED
  BY <1>1, <1>2, <1>3, <1>4, <1>5, <1>6, <1>8, <1>9, <1>10 DEF Next

LEMMA SettingsCorrect == Spec => []SettingsInv
<1>1. Init => SettingsInv
  <2> SUFFICES ASSUME Init PROVE SettingsInv
    OBVIOUS
  <2>1. DOMAIN namespaces = {}
    BY DEF Init
  <2> QED  BY <2>1, SetupAssumption DEF Init, SettingsInv
<1> QED  BY <1>1, SettingsStep, PTL DEF Spec

\* A registered namespace has the settings its builder was given and the
\* server's for the rest, whatever other builders did before and since.
THEOREM SettingsInherited == Spec => []OverridesAreLocal
<1>1. SettingsInv => OverridesAreLocal
  <2> SUFFICES ASSUME SettingsInv, NEW p \in DOMAIN namespaces, NEW k \in Settings
               PROVE  namespaces[p].config[k] = IF k \in DOMAIN namespaces[p].own
                                                THEN namespaces[p].own[k] ELSE config[k]
    BY DEF OverridesAreLocal
  <2>1. BuilderInv(namespaces[p])
    BY DEF SettingsInv
  <2> QED  BY <2>1 DEF BuilderInv
<1> QED  BY <1>1, SettingsCorrect, PTL

-----------------------------------------------------------------------------
\* The two sides write one format.
SameFormat == Format(client.codec) = Format(ServerCodec)

\* A link belongs to a client and a registered namespace; the packet on it
\* was encoded by the side whose turn it was, and gets past the first Init
\* packet only between sides of one format.
LinkInv ==
  link # None =>
    /\ link = [path |-> link.path, capacity |-> link.capacity, stage |-> link.stage,
               packet |-> link.packet, read |-> link.read, message |-> link.message]
    /\ link.path \in DOMAIN namespaces /\ link.capacity \in Capacities
    /\ link.stage \in {"Init", "Response", "Sent", "Open", "Failed"}
    /\ client \notin {None, Failed}
    /\ link.stage \in {"Init", "Sent"} =>
         /\ link.packet \in PacketsOf(ServerCodec)
         /\ link.message = EncodePacketToMessage(ServerCodec, link.packet)
    /\ link.stage = "Response" =>
         /\ link.packet \in PacketsOf(client.codec)
         /\ link.message = EncodePacketToMessage(client.codec, link.packet)
    /\ link.stage \in {"Response", "Sent", "Open"} => SameFormat
    /\ link.stage = "Failed" => ~ SameFormat
    /\ link.stage = "Open" => link.read = link.packet

\* Who asks, and what is answered.
RequestInv ==
  /\ client \in {None, Failed} \/ client.codec \in Codecs
  /\ answer \in {None, Inner, 101, 400, 404, 405, 500}
  /\ request # None /\ ~ request.foreign => client \notin {None, Failed}

\* A request of a client is one of a client that was built.
LEMMA RequestStep == RequestInv /\ [Next]_vars => RequestInv'
<1> SUFFICES ASSUME RequestInv, [Next]_vars PROVE RequestInv'
  OBVIOUS
<1> USE SetupAssumption DEF RequestInv, server, spaces, net
<1>1. ASSUME UNCHANGED <<client, request, answer>> PROVE RequestInv'
  BY <1>1
<1>2. ASSUME NEW url \in Urls, ClientBuild(url) PROVE RequestInv'
  <2>1. client = None /\ UNCHANGED <<request, answer>>
    BY <1>2 DEF ClientBuild
  <2>2. \/ client' = Failed
        \/ \E p \in RequestPaths, codec \in Values["packet_codec"] :
             client' = ClientPacketCodec(ClientRequestPath(ClientNew(url), p), codec)
    BY <1>2 DEF ClientBuild
  <2>3. client' = Failed \/ client'.codec \in Codecs
    <3> SUFFICES ASSUME NEW p \in RequestPaths, NEW codec \in Values["packet_codec"]
                 PROVE  ClientPacketCodec(ClientRequestPath(ClientNew(url), p), codec).codec
                          = codec
      BY <2>2
    <3> QED  BY DEF ClientPacketCodec, ClientRequestPath, ClientNew
  <2> QED  BY <2>1, <2>3
<1>3. ASSUME NEW r \in Foreign, ForeignRequest(r) PROVE RequestInv'
  BY <1>3 DEF ForeignRequest
<1>4. CASE Connect
  BY <1>4 DEF Connect
<1>5. CASE Serve
  BY <1>5, Dispatched DEF Serve
<1>6. CASE ClientReadsInit \/ ServerReadsInit \/ ClientReads \/ ServerSends \/ UNCHANGED vars
  BY <1>1, <1>6 DEF ClientReadsInit, ServerReadsInit, ClientReads, ServerSends, vars
<1>7. ASSUME NEW k \in Settings, NEW v \in Values[k], ServerSet(k, v) \/ NamespaceSet(k, v)
      PROVE  RequestInv'
  BY <1>1, <1>7 DEF ServerSet, NamespaceSet
<1>8. CASE \/ Build \/ Register \/ \E p \in RequestPaths : ServerRequestPath(p)
           \/ \E p \in NamespacePaths : NewNamespaceBuilder(p)
  BY <1>1, <1>8 DEF Build, Register, ServerRequestPath, NewNamespaceBuilder
<1> QED  BY <1>2, <1>3, <1>4, <1>5, <1>6, <1>7, <1>8 DEF Next

\* Bytes decode to the packet they were made of when the formats are the
\* same, and to an error otherwise.
LEMMA Decodes ==
  ASSUME NEW from \in Codecs, NEW to \in Codecs, NEW packet \in PacketsOf(from),
         link.message = EncodePacketToMessage(from, packet)
  PROVE  /\ Format(from) = Format(to) => Reads(to) = packet /\ ~ Broken(to)
         /\ Format(from) # Format(to) => Broken(to)
<1>1. link.message.bytes = [format |-> Format(from), value |-> ToInnerRef(packet)]
  BY DEF EncodePacketToMessage, Encode, EncodeData
<1>2. Failed # ToInnerRef(packet) /\ Failed # packet /\ Failed \notin {"hello", "data"}
  BY FailedAssumption
<1>3. /\ packet = [type |-> packet.type, key |-> packet.key, data |-> packet.data]
      /\ packet.data = None \/ packet.data \in {EncodeData(from, "hello"), EncodeData(from, "data")}
  BY DEF PacketsOf, NewInit, NewReady, NewDisconnect, NewEvent, New
<1>4. FromInner(ToInnerRef(packet)) = packet
  BY <1>3 DEF FromInner, ToInnerRef
<1>5. CASE Format(from) = Format(to)
  <2>1. Reads(to) = packet
    BY <1>1, <1>2, <1>4, <1>5 DEF Reads, Decode, DecodeData
  <2>2. packet.data # None => DecodeData(to, packet.data) # Failed
    BY <1>2, <1>3, <1>5 DEF DecodeData, EncodeData
  <2> QED  BY <1>2, <1>5, <2>1, <2>2 DEF Broken
<1>6. CASE Format(from) # Format(to)
  BY <1>1, <1>6 DEF Broken, Reads, Decode, DecodeData
<1> QED  BY <1>5, <1>6

\* A registered namespace stays as it was registered.
LEMMA NamespacesStay ==
  ASSUME [Next]_vars, NEW p \in DOMAIN namespaces
  PROVE  p \in DOMAIN namespaces' /\ namespaces'[p] = namespaces[p]
<1> USE DEF server, spaces, net
<1>1. CASE Register
  BY <1>1 DEF Register, With
<1>2. CASE UNCHANGED namespaces
  BY <1>2
<1>3. ASSUME NEW k \in Settings, NEW v \in Values[k], ServerSet(k, v) \/ NamespaceSet(k, v)
      PROVE  UNCHANGED namespaces
  BY <1>3 DEF ServerSet, NamespaceSet
<1>4. CASE \/ Build \/ \E q \in RequestPaths : ServerRequestPath(q)
           \/ \E q \in NamespacePaths : NewNamespaceBuilder(q)
           \/ \E url \in Urls : ClientBuild(url)
  BY <1>2, <1>4 DEF Build, ServerRequestPath, NewNamespaceBuilder, ClientBuild
<1>5. CASE Connect \/ Serve \/ \E r \in Foreign : ForeignRequest(r)
  BY <1>2, <1>5 DEF Connect, Serve, ForeignRequest
<1>6. CASE ClientReadsInit \/ ServerReadsInit \/ ClientReads \/ ServerSends \/ UNCHANGED vars
  BY <1>2, <1>6 DEF ClientReadsInit, ServerReadsInit, ClientReads, ServerSends, vars
<1> QED  BY <1>1, <1>2, <1>3, <1>4, <1>5, <1>6 DEF Next

\* The codecs of a registered namespace and of a link's client.
LEMMA CodecsKnown ==
  ASSUME SettingsInv, RequestInv, LinkInv, link # None
  PROVE  ServerCodec \in Codecs /\ client.codec \in Codecs
<1>1. BuilderInv(namespaces[link.path])
  BY DEF SettingsInv, LinkInv
<1>2. ServerCodec \in Values["packet_codec"]
  BY <1>1, SetupAssumption DEF ServerCodec, BuilderInv, SettingsInv
<1> QED  BY <1>2, SetupAssumption DEF RequestInv, LinkInv

\* The two ends of a link keep their codecs.
LEMMA EndsStay ==
  ASSUME LinkInv, link # None, [Next]_vars, link'.path = link.path
  PROVE  /\ link.path \in DOMAIN namespaces' /\ UNCHANGED <<client, ServerCodec>>
         /\ SameFormat' = SameFormat
<1>1. link.path \in DOMAIN namespaces' /\ namespaces'[link.path] = namespaces[link.path]
  BY NamespacesStay DEF LinkInv
<1>2. client' = client
  <2> USE DEF server, spaces, net
  <2>1. \A url \in Urls : ~ ClientBuild(url)
    BY DEF ClientBuild, LinkInv
  <2>2. ASSUME NEW k \in Settings, NEW v \in Values[k], ServerSet(k, v) \/ NamespaceSet(k, v)
        PROVE  client' = client
    BY <2>2 DEF ServerSet, NamespaceSet
  <2>3. CASE \/ Build \/ Register \/ \E q \in RequestPaths : ServerRequestPath(q)
             \/ \E q \in NamespacePaths : NewNamespaceBuilder(q)
    BY <2>3 DEF Build, Register, ServerRequestPath, NewNamespaceBuilder
  <2>4. CASE Connect \/ Serve \/ \E r \in Foreign : ForeignRequest(r)
    BY <2>4 DEF Connect, Serve, ForeignRequest
  <2>5. CASE ClientReadsInit \/ ServerReadsInit \/ ClientReads \/ ServerSends \/ UNCHANGED vars
    BY <2>5 DEF ClientReadsInit, ServerReadsInit, ClientReads, ServerSends, vars
  <2> QED  BY <2>1, <2>2, <2>3, <2>4, <2>5 DEF Next
<1> QED  BY <1>1, <1>2 DEF ServerCodec, SameFormat

\* dispatch_request() opens a link to a namespace that is registered, whose
\* channel is neither empty nor boundless.
LEMMA LinkOpens ==
  ASSUME SettingsInv, RequestInv, [Next]_vars, Serve, ~ request.foreign,
         NEW path \in DOMAIN namespaces, NEW data \in {None, "hello"},
         link' = OpenLink(path, data)
  PROVE  LinkInv'
<1>1. UNCHANGED <<client, namespaces>> /\ client \notin {None, Failed}
  BY DEF Serve, RequestInv, spaces
<1>2. link'.path = path /\ link'.stage = "Init" /\ ServerCodec' = namespaces[path].config["packet_codec"]
  BY <1>1 DEF OpenLink, ServerCodec
<1>3. BuilderInv(namespaces[path])
  BY DEF SettingsInv
<1>4. PICK ws \in Values["websocket_config"] : ws = namespaces[path].config["websocket_config"]
  BY <1>3, SetupAssumption DEF BuilderInv, SettingsInv
<1>5. link'.capacity \in Capacities
  <2>1. ChannelCapacity(ws) \in Capacities
    BY <1>4, CapacityBounded
  <2>2. link'.capacity = ChannelCapacity(ws)
    BY <1>4 DEF OpenLink
  <2> QED  BY <2>1, <2>2
<1>6. PICK codec : codec = namespaces[path].config["packet_codec"]
  OBVIOUS
<1>7. PICK packet \in PacketsOf(codec) :
        packet = NewInit(IF data = None THEN None ELSE EncodeData(codec, data))
  BY DEF PacketsOf
<1>8. link' = [path |-> path, capacity |-> link'.capacity, stage |-> "Init", packet |-> packet,
               read |-> None, message |-> EncodePacketToMessage(codec, packet)]
  BY <1>6, <1>7 DEF OpenLink
<1>9. link'.packet \in PacketsOf(codec) /\ link'.message = EncodePacketToMessage(codec, link'.packet)
  BY <1>7, <1>8
<1>10. link' = [path |-> link'.path, capacity |-> link'.capacity, stage |-> link'.stage,
                packet |-> link'.packet, read |-> link'.read, message |-> link'.message]
  BY <1>8
<1>11. ServerCodec' = codec
  BY <1>2, <1>6
<1>12. (link.packet \in PacketsOf(ServerCodec))'
  BY <1>9, <1>11
<1>13. (link.message = EncodePacketToMessage(ServerCodec, link.packet))'
  BY <1>9, <1>11
<1>14. (link.path \in DOMAIN namespaces /\ link.capacity \in Capacities)'
  BY <1>1, <1>5, <1>8
<1>15. (link.stage = "Init" /\ client \notin {None, Failed})'
  BY <1>1, <1>8
<1> QED  BY <1>10, <1>12, <1>13, <1>14, <1>15 DEF LinkInv

\* Reading: the reader ends exactly when the other side writes another format.
LEMMA LinkStep ==
  SettingsInv /\ RequestInv /\ LinkInv /\ [Next]_vars => LinkInv'
<1> SUFFICES ASSUME SettingsInv, RequestInv, LinkInv, [Next]_vars PROVE LinkInv'
  OBVIOUS
<1>0. CASE link' = None
  BY <1>0 DEF LinkInv
<1> USE DEF server, spaces, net
<1>1. CASE Serve /\ link' # link
  <2>1. PICK response : response = DispatchRequest(request, DOMAIN namespaces)
    OBVIOUS
  <2>2. /\ response.status = 101 /\ ~ request.foreign
        /\ \E data \in {None, "hello"} : link' = OpenLink(response.namespace, data)
    BY <1>1, <2>1 DEF Serve
  <2>3. response.namespace \in DOMAIN namespaces
    BY <2>1, <2>2, Dispatched
  <2> QED  BY <1>1, <2>2, <2>3, LinkOpens
<1>2. CASE link' = link /\ link # None
  <2>1. link'.path = link.path
    BY <1>2
  <2>2. /\ link.path \in DOMAIN namespaces' /\ UNCHANGED <<client, ServerCodec>>
        /\ SameFormat' = SameFormat
    BY <1>2, <2>1, EndsStay
  <2> QED  BY <1>2, <2>2 DEF LinkInv
\* The other steps on a link leave its path and its capacity.
<1>3. ASSUME link # None,
             NEW stage, NEW packet, NEW read, NEW message,
             link' = [path |-> link.path, capacity |-> link.capacity, stage |-> stage,
                      packet |-> packet, read |-> read, message |-> message],
             \/ /\ stage = "Failed" /\ ~ SameFormat
             \/ /\ stage = "Response" /\ SameFormat /\ packet \in PacketsOf(client.codec)
                /\ message = EncodePacketToMessage(client.codec, packet)
             \/ /\ stage = "Sent" /\ SameFormat /\ packet \in PacketsOf(ServerCodec)
                /\ message = EncodePacketToMessage(ServerCodec, packet)
             \/ /\ stage = "Open" /\ SameFormat /\ read = packet
      PROVE  LinkInv'
  <2>1. /\ link'.path = link.path /\ link'.capacity = link.capacity /\ link'.stage = stage
        /\ link'.packet = packet /\ link'.read = read /\ link'.message = message
    BY <1>3
  <2>2. /\ link.path \in DOMAIN namespaces' /\ UNCHANGED <<client, ServerCodec>>
        /\ SameFormat' = SameFormat
    BY <1>3, <2>1, EndsStay
  <2>3. link' = [path |-> link'.path, capacity |-> link'.capacity, stage |-> link'.stage,
                 packet |-> link'.packet, read |-> link'.read, message |-> link'.message]
    BY <1>3, <2>1
  <2>4. /\ link.capacity \in Capacities /\ client \notin {None, Failed}
    BY <1>3 DEF LinkInv
  <2>5. (/\ link.path \in DOMAIN namespaces /\ link.capacity \in Capacities
         /\ client \notin {None, Failed})'
    BY <2>1, <2>2, <2>4
  <2>6. CASE stage = "Failed" /\ ~ SameFormat
    BY <2>1, <2>2, <2>3, <2>5, <2>6 DEF LinkInv
  <2>7. CASE /\ stage = "Response" /\ SameFormat /\ packet \in PacketsOf(client.codec)
             /\ message = EncodePacketToMessage(client.codec, packet)
    BY <2>1, <2>2, <2>3, <2>5, <2>7 DEF LinkInv
  <2>8. CASE /\ stage = "Sent" /\ SameFormat /\ packet \in PacketsOf(ServerCodec)
             /\ message = EncodePacketToMessage(ServerCodec, packet)
    BY <2>1, <2>2, <2>3, <2>5, <2>8 DEF LinkInv
  <2>9. CASE stage = "Open" /\ SameFormat /\ read = packet
    BY <2>1, <2>2, <2>3, <2>5, <2>9 DEF LinkInv
  <2> QED  BY <1>3, <2>6, <2>7, <2>8, <2>9
\* Whoever reads next finds the reader broken exactly when the formats differ.
<1>4. ASSUME link # None, link.stage \in {"Init", "Sent"}
      PROVE  /\ SameFormat => Reads(client.codec) = link.packet /\ ~ Broken(client.codec)
             /\ ~ SameFormat => Broken(client.codec)
  BY <1>4, CodecsKnown, Decodes DEF LinkInv, SameFormat
<1>5. ASSUME link # None, link.stage = "Response"
      PROVE  SameFormat /\ ~ Broken(ServerCodec)
  BY <1>5, CodecsKnown, Decodes DEF LinkInv, SameFormat
<1>6. CASE ClientReadsInit
  <2>1. /\ link # None /\ link.stage = "Init"
        /\ IF Broken(client.codec) THEN Fails
           ELSE Send(client.codec, "Response", NewInit(EncodeData(client.codec, "hello")))
    BY <1>6 DEF ClientReadsInit
  <2>2. CASE Broken(client.codec)
    <3>1. link' = [path |-> link.path, capacity |-> link.capacity, stage |-> "Failed",
                   packet |-> link.packet, read |-> Failed, message |-> link.message]
      BY <2>1, <2>2 DEF Fails, LinkInv
    <3> QED  BY <1>3, <1>4, <2>1, <2>2, <3>1
  <2>3. CASE ~ Broken(client.codec)
    <3>1. PICK packet \in PacketsOf(client.codec) :
            packet = NewInit(EncodeData(client.codec, "hello"))
      BY DEF PacketsOf
    <3>2. link' = [path |-> link.path, capacity |-> link.capacity, stage |-> "Response",
                   packet |-> packet, read |-> None,
                   message |-> EncodePacketToMessage(client.codec, packet)]
      BY <2>1, <2>3, <3>1 DEF Send, LinkInv
    <3> QED  BY <1>3, <1>4, <2>1, <2>3, <3>1, <3>2
  <2> QED  BY <2>2, <2>3
<1>7. CASE ServerReadsInit
  <2>1. link # None /\ link.stage = "Response" /\ SameFormat
    BY <1>5, <1>7 DEF ServerReadsInit
  <2>2. Send(ServerCodec, "Sent", NewReady)
    BY <1>5, <1>7 DEF ServerReadsInit
  <2>3. NewReady \in PacketsOf(ServerCodec)
    BY DEF PacketsOf
  <2>4. link' = [path |-> link.path, capacity |-> link.capacity, stage |-> "Sent",
                 packet |-> NewReady, read |-> None,
                 message |-> EncodePacketToMessage(ServerCodec, NewReady)]
    BY <2>1, <2>2 DEF Send, LinkInv
  <2> QED  BY <1>3, <2>1, <2>3, <2>4
<1>8. CASE ClientReads
  <2>1. link # None /\ link.stage = "Sent" /\ SameFormat
    BY <1>8 DEF ClientReads, LinkInv
  <2>2. link' = [link EXCEPT !.stage = "Open", !.read = link.packet]
    BY <1>4, <1>8, <2>1 DEF ClientReads
  <2>3. link' = [path |-> link.path, capacity |-> link.capacity, stage |-> "Open",
                 packet |-> link.packet, read |-> link.packet, message |-> link.message]
    BY <2>1, <2>2 DEF LinkInv
  <2> QED  BY <1>3, <2>1, <2>3
<1>9. CASE ServerSends
  <2>1. link # None /\ link.stage = "Open" /\ SameFormat
    BY <1>9 DEF ServerSends, LinkInv
  <2>2. PICK packet \in PacketsOf(ServerCodec) : Send(ServerCodec, "Sent", packet)
    BY <1>9 DEF ServerSends, PacketsOf
  <2>3. link' = [path |-> link.path, capacity |-> link.capacity, stage |-> "Sent",
                 packet |-> packet, read |-> None,
                 message |-> EncodePacketToMessage(ServerCodec, packet)]
    BY <2>1, <2>2 DEF Send, LinkInv
  <2> QED  BY <1>3, <2>1, <2>2, <2>3
<1>10. ASSUME link' = link PROVE LinkInv'
  BY <1>0, <1>2, <1>10
<1>11. ASSUME NEW k \in Settings, NEW v \in Values[k], ServerSet(k, v) \/ NamespaceSet(k, v)
       PROVE  link' = link
  BY <1>11 DEF ServerSet, NamespaceSet
<1>12. CASE \/ Build \/ Register \/ \E q \in RequestPaths : ServerRequestPath(q)
            \/ \E q \in NamespacePaths : NewNamespaceBuilder(q)
            \/ \E url \in Urls : ClientBuild(url)
  BY <1>10, <1>12 DEF Build, Register, ServerRequestPath, NewNamespaceBuilder, ClientBuild
<1>13. CASE Connect \/ (\E r \in Foreign : ForeignRequest(r)) \/ UNCHANGED vars
  BY <1>10, <1>13 DEF Connect, ForeignRequest, vars
<1> QED
  BY <1>1, <1>6, <1>7, <1>8, <1>9, <1>10, <1>11, <1>12, <1>13 DEF Next

LEMMA LinkCorrect == Spec => [](SettingsInv /\ RequestInv /\ LinkInv)
<1>1. Init => RequestInv /\ LinkInv
  BY DEF Init, RequestInv, LinkInv
<1> QED  BY <1>1, SettingsCorrect, RequestStep, LinkStep, PTL DEF Spec

\* No setting, path or packet is ever of another kind, and the channel of
\* every connection has room for 64 messages and for no more than 16384,
\* whatever buffer sizes channel_capacity_from_websocket_config() is given.
THEOREM SetupTypeCorrect == Spec => []TypeOK
<1>1. SettingsInv /\ RequestInv /\ LinkInv => TypeOK
  <2> SUFFICES ASSUME SettingsInv, RequestInv, LinkInv PROVE TypeOK
    OBVIOUS
  <2>1. builder # None => builder.path \in NamespacePaths /\ built
    BY DEF SettingsInv, BuilderInv
  <2>2. DOMAIN config = Settings /\ \A k \in Settings : config[k] \in Values[k]
    BY DEF SettingsInv
  <2>3. DOMAIN namespaces \subseteq NamespacePaths
    BY DEF SettingsInv
  <2> QED  BY <2>1, <2>2, <2>3 DEF SettingsInv, RequestInv, LinkInv, TypeOK
<1> QED  BY <1>1, LinkCorrect, PTL

\* A handshake gets past the Init packet exactly between codecs of one format,
\* for any choice of codecs, and the client then reads what the server sent.
THEOREM CodecsCorrect == Spec => []CodecsAgree
<1>1. SettingsInv /\ RequestInv /\ LinkInv => CodecsAgree
  <2> SUFFICES ASSUME SettingsInv, RequestInv, LinkInv, link # None PROVE CodecsAgree
    BY DEF CodecsAgree
  <2>1. ServerCodec \in Codecs /\ client.codec \in Codecs
    BY CodecsKnown
  <2>2. SameFormat <=> \/ client.codec = ServerCodec
                      \/ {client.codec, ServerCodec} = {"SerdeJson", "SonicRs"}
    BY <2>1, Formats DEF SameFormat, Codecs
  <2> QED  BY <2>2 DEF LinkInv, CodecsAgree
<1> QED  BY <1>1, LinkCorrect, PTL
=============================================================================
