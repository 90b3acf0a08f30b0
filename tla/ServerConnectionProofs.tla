------------------------ MODULE ServerConnectionProofs ------------------------
(***************************************************************************)
(* Theorems about ServerConnection, for every channel capacity, every set  *)
(* of application tasks, and every choice of configured handlers.          *)
(*                                                                         *)
(* Each invariance proof goes through the actions task by task; most tasks *)
(* do not touch the variables an invariant speaks about, and their leaf    *)
(* only expands the frames.                                                *)
(***************************************************************************)
EXTENDS ServerConnection, TLAPS

\* The groups of variables are always expanded.
USE DEF driverVars, readVars, writeVars, watchVars, callVars, taskVars

(***************************************************************************)
(* Type correctness.                                                       *)
(***************************************************************************)
\* The kinds of message are messages, and "none" is not one of them.
LEMMA Kinds ==
  /\ "none" \notin Message
  /\ "Init" \in Message /\ "Ready" \in Message /\ "Event" \in Message
  /\ "Disconnect" \in Message /\ "Close" \in Message
  BY DEF Message

\* No step breaks the channel's type or overfills it: send() waits for room,
\* try_send() gives up, and the writer only takes messages out.
LEMMA ChannelTypeStep == ChannelTypeOK /\ [Next]_vars => ChannelTypeOK'
<1> SUFFICES ASSUME ChannelTypeOK, [Next]_vars PROVE ChannelTypeOK'
  OBVIOUS
<1> USE DEF ChannelTypeOK
<1>1. ASSUME NEW m \in Message, Send(m) \/ SendFails \/ TrySend(m)
      PROVE  ChannelTypeOK'
  BY <1>1, CapacityAssumption DEF Send, SendFails, TrySend, HasRoom
<1>2. CASE WriterStep
  <2>1. CASE WriteRecv
    BY <2>1, CapacityAssumption DEF WriteRecv, WriterOnly
  <2>a. <<>> \in Seq(Message) /\ Len(<<>>) <= Capacity
    BY CapacityAssumption
  <2>b. ASSUME WriteEnd, sent' \subseteq Milestones PROVE ChannelTypeOK'
    BY <2>a, <2>b DEF WriteEnd, WriterOnly
  <2>2. CASE WriteSend
    BY <2>2, <2>b DEF WriteSend, WriterOnly
  <2>3. CASE WriteFails \/ WriteStops
    BY <2>3, <2>b DEF WriteFails, WriteStops
  <2> QED  BY <1>2, <2>1, <2>2, <2>3 DEF WriterStep
<1>3. CASE DriverStep
  <2>1. CASE DriverSendInit
    BY <2>1, <1>1, Kinds DEF DriverSendInit
  <2>2. CASE DriverSelect
    BY <2>2 DEF DriverSelect
  <2>3. CASE CleanupStep
    BY <2>3 DEF CleanupStep, CleanupClosing, CleanupRemoveConnection, RemoveFrom,
       CleanupAbortWatchdog, CleanupCancel, CleanupTakeOnClose, CleanupOnClose,
       CleanupClosed, DriverOnly
  <2> QED
    BY <1>3, <2>1, <2>2, <2>3 DEF DriverStep, DriverInit, DriverInitRequest,
       DriverAwaitInit, DriverSpawnWatchdog, DriverStoreWatchdog, DriverFail, DriverJoin,
       DriverOnly
<1>4. CASE ReadFrame \/ ReadStops
  BY <1>4 DEF ReadFrame, ReadEnd, ReadEvent, ReadInit, ReadTransition, ReadStops
<1>5. CASE HandleInitPacket
  <2>1. CASE ReadSendReady
    BY <2>1, <1>1, Kinds DEF ReadSendReady
  <2> QED
    BY <1>5, <2>1 DEF HandleInitPacket, ReadAbortWatchdog, ReadInitResponse, ReadActivate,
       ReadMiddleware, ReadEnsureActivating, ReadOnConnect, ReadReady, ReadTransition,
       ReadHandler, ReadInsertConnection, InsertInto, ReadOnReady
<1>6. CASE WatchdogStep
  BY <1>6 DEF WatchdogStep, WatchdogWakes, WatchdogChecks, WatchdogOnly
<1>7. ASSUME NEW c \in CloseCallers, CloseStep(c) PROVE ChannelTypeOK'
  BY <1>7, <1>1, Kinds DEF CloseStep, CloseGet, CloseStore, CloseTrySend
<1>8. ASSUME NEW c \in Closers, Disconnect(c) \/ DisconnectSend(c) \/ CloseAll(c)
      PROVE  ChannelTypeOK'
  BY <1>8, <1>1, Kinds DEF Disconnect, DisconnectSend, CloseAll
<1>9. ASSUME NEW e \in Emitters, Emit(e) \/ DisconnectAll(e) \/ EmitSend(e)
      PROVE  ChannelTypeOK'
  BY <1>9, <1>1, Kinds DEF Emit, DisconnectAll, EmitSend
<1>11. CASE OnClose \/ TaskReturns \/ UNCHANGED vars
  BY <1>11 DEF OnClose, TaskReturns, vars
<1> QED
  BY <1>2, <1>3, <1>4, <1>5, <1>6, <1>7, <1>8, <1>9, <1>11 DEF Next

\* No step takes `state`, a program counter, the registries or the detached
\* tasks out of their types.
LEMMA TaskTypeStep == TaskTypeOK /\ [Next]_vars => TaskTypeOK'
<1> SUFFICES ASSUME TaskTypeOK, [Next]_vars PROVE TaskTypeOK'
  OBVIOUS
<1> USE DEF TaskTypeOK, ConnectionState, DriverPC, InitPC, RemovePC, RemovedPC, ReaderPC,
            InsertPC
<1>1. CASE WriterStep
  BY <1>1 DEF WriterStep, WriteRecv, WriteSend, WriteFails, WriteStops, WriteEnd, WriterOnly
<1>2. CASE DriverStep
  <2>1. CASE DriverInit
    BY <2>1 DEF DriverInit, DriverOnly
  <2>2. CASE DriverInitRequest
    BY <2>2 DEF DriverInitRequest, DriverOnly
  <2>3. CASE DriverAwaitInit
    BY <2>3 DEF DriverAwaitInit, DriverOnly
  <2>4. CASE DriverSpawnWatchdog \/ DriverStoreWatchdog \/ DriverSendInit
    BY <2>4 DEF DriverSpawnWatchdog, DriverStoreWatchdog, DriverSendInit
  <2>5. CASE DriverSelect \/ DriverFail \/ DriverJoin
    BY <2>5 DEF DriverSelect, DriverFail, DriverJoin, DriverOnly
  <2>6. CASE CleanupStep
    <3>1. CASE CleanupClosing \/ CleanupOnClose \/ CleanupClosed
      BY <3>1 DEF CleanupClosing, CleanupOnClose, CleanupClosed, DriverOnly
    <3>2. CASE CleanupRemoveConnection
      <4>1. ASSUME NEW registry, NEW from, NEW to \in DriverPC, RemoveFrom(registry, from, to)
            PROVE  TaskTypeOK'
        BY <4>1 DEF RemoveFrom
      <4>2. /\ "remove_runtime_ids" \in DriverPC /\ "remove_namespace_ids" \in DriverPC
            /\ "abort_watchdog" \in DriverPC
        OBVIOUS
      <4> QED  BY ONLY <3>2, <4>1, <4>2 DEF CleanupRemoveConnection
    <3>4. CASE CleanupAbortWatchdog
      BY <3>4 DEF CleanupAbortWatchdog, AbortLockedTask
    <3>5. CASE CleanupCancel
      BY <3>5 DEF CleanupCancel
    <3>6. CASE CleanupTakeOnClose
      BY <3>6 DEF CleanupTakeOnClose
    <3> QED  BY <2>6, <3>1, <3>2, <3>4, <3>5, <3>6 DEF CleanupStep
  <2> QED  BY <1>2, <2>1, <2>2, <2>3, <2>4, <2>5, <2>6 DEF DriverStep
<1>3. CASE ReadFrame \/ ReadStops
  <2>1. CASE ReadEvent
    BY <2>1 DEF ReadEvent, ReaderOnly
  <2> QED
    BY <1>3, <2>1 DEF ReadFrame, ReadEnd, ReadInit, ReadTransition, ReadStops, ReaderOnly
<1>4. CASE HandleInitPacket
  <2>1. CASE ReadAbortWatchdog
    BY <2>1 DEF ReadAbortWatchdog, AbortLockedTask, ReaderOnly
  <2>2. CASE ReadActivate \/ ReadReady \/ ReadEnsureActivating
    BY <2>2 DEF ReadActivate, ReadReady, ReadEnsureActivating, ReadTransition, ReaderOnly,
       AfterActivate, AfterMiddleware
  <2>3. CASE ReadInitResponse \/ ReadMiddleware \/ ReadOnConnect
    BY <2>3 DEF ReadInitResponse, ReadMiddleware, ReadOnConnect, ReadHandler, ReaderOnly
  <2>4. CASE ReadInsertConnection
    <3>1. ASSUME NEW registry \in Registries, NEW from, NEW to \in ReaderPC,
                 InsertInto(registry, from, to)
          PROVE  TaskTypeOK'
      BY <3>1 DEF InsertInto, ReaderOnly
    <3>2. /\ "insert_runtime_ids" \in ReaderPC /\ "insert_namespace_ids" \in ReaderPC
          /\ "send_ready" \in ReaderPC
      OBVIOUS
    <3>3. Registries = {"connections", "runtime_ids", "namespace_ids"}
      BY DEF Registries
    <3> QED  BY ONLY <2>4, <3>1, <3>2, <3>3 DEF ReadInsertConnection
  <2>5. CASE ReadSendReady
    BY <2>5 DEF ReadSendReady, ReaderOnly
  <2>6. CASE ReadOnReady
    BY <2>6 DEF ReadOnReady
  <2> QED  BY <1>4, <2>1, <2>2, <2>3, <2>4, <2>5, <2>6 DEF HandleInitPacket
<1>5. CASE WatchdogStep
  BY <1>5 DEF WatchdogStep, WatchdogWakes, WatchdogChecks, WatchdogOnly
<1>6. ASSUME NEW c \in CloseCallers, CloseStep(c) PROVE TaskTypeOK'
  BY <1>6 DEF CloseStep, CloseGet, CloseStore, CloseTrySend, CloserOnly
<1>7. ASSUME NEW c \in Closers, Disconnect(c) \/ DisconnectSend(c) \/ CloseAll(c)
      PROVE  TaskTypeOK'
  BY <1>7 DEF Disconnect, DisconnectSend, CloseAll, CloserOnly
<1>8. ASSUME NEW e \in Emitters, Emit(e) \/ DisconnectAll(e) \/ EmitSend(e)
      PROVE  TaskTypeOK'
  BY <1>8 DEF Emit, DisconnectAll, EmitSend, EmitterOnly
<1>10. CASE OnClose \/ TaskReturns \/ UNCHANGED vars
  BY <1>10 DEF OnClose, TaskReturns, vars
<1> QED
  BY <1>1, <1>2, <1>3, <1>4, <1>5, <1>6, <1>7, <1>8, <1>10 DEF Next

\* No step breaks the types of the calls in flight.
LEMMA CallTypeStep == CallTypeOK /\ [Next]_vars => CallTypeOK'
<1> SUFFICES ASSUME CallTypeOK, [Next]_vars PROVE CallTypeOK'
  OBVIOUS
<1> USE DEF CallTypeOK
<1>1. CASE WriterStep
  BY <1>1 DEF WriterStep, WriteRecv, WriteSend, WriteFails, WriteStops, WriteEnd, WriterOnly
<1>2. CASE DriverStep
  <2>1. CASE DriverFail
    BY <2>1 DEF DriverFail, CloseCallers, ClosePC
  <2>2. CASE CleanupStep
    BY <2>2 DEF CleanupStep, CleanupClosing, CleanupRemoveConnection, RemoveFrom,
       CleanupAbortWatchdog, CleanupCancel, CleanupTakeOnClose, CleanupOnClose,
       CleanupClosed, DriverOnly
  <2> QED
    BY <1>2, <2>1, <2>2 DEF DriverStep, DriverInit, DriverInitRequest, DriverAwaitInit,
       DriverSpawnWatchdog, DriverStoreWatchdog, DriverSendInit, DriverSelect, DriverJoin,
       DriverOnly
<1>3. CASE ReadFrame \/ ReadStops
  BY <1>3 DEF ReadFrame, ReadEnd, ReadEvent, ReadInit, ReadTransition, ReadStops, ReaderOnly
<1>4. CASE HandleInitPacket
  BY <1>4 DEF HandleInitPacket, ReadAbortWatchdog, ReadInitResponse, ReadActivate,
     ReadMiddleware, ReadEnsureActivating, ReadOnConnect, ReadReady, ReadTransition,
     ReadHandler, ReadInsertConnection, InsertInto, ReadSendReady, ReadOnReady, ReaderOnly
<1>5. CASE WatchdogStep
  BY <1>5 DEF WatchdogStep, WatchdogWakes, WatchdogChecks, WatchdogOnly, CloseCallers, ClosePC
<1>6. ASSUME NEW c \in CloseCallers, CloseStep(c) PROVE CallTypeOK'
  BY <1>6 DEF CloseStep, CloseGet, CloseStore, CloseTrySend, CloserOnly, ClosePC
<1>7. ASSUME NEW c \in Closers, Disconnect(c) \/ DisconnectSend(c) \/ CloseAll(c)
      PROVE  CallTypeOK'
  BY <1>7 DEF Disconnect, DisconnectSend, CloseAll, CloserOnly, ClosePC
<1>8. ASSUME NEW e \in Emitters, Emit(e) \/ DisconnectAll(e) \/ EmitSend(e)
      PROVE  CallTypeOK'
  BY <1>8 DEF Emit, DisconnectAll, EmitSend, EmitterOnly, EmitPC
<1>10. CASE OnClose \/ TaskReturns \/ UNCHANGED vars
  BY <1>10 DEF OnClose, TaskReturns, vars
<1> QED
  BY <1>1, <1>2, <1>3, <1>4, <1>5, <1>6, <1>7, <1>8, <1>10 DEF Next

\* No step breaks the types of the flags.
LEMMA FlagTypeStep == FlagTypeOK /\ [Next]_vars => FlagTypeOK'
<1> SUFFICES ASSUME FlagTypeOK, [Next]_vars PROVE FlagTypeOK'
  OBVIOUS
<1> USE DEF FlagTypeOK
<1>1. CASE WriterStep
  BY <1>1 DEF WriterStep, WriteRecv, WriteSend, WriteFails, WriteStops, WriteEnd, WriterOnly
<1>2. CASE DriverStep
  <2>1. CASE CleanupStep
    BY <2>1 DEF CleanupStep, CleanupClosing, CleanupRemoveConnection, RemoveFrom,
       CleanupAbortWatchdog, AbortLockedTask, CleanupCancel, CleanupTakeOnClose,
       CleanupOnClose, CleanupClosed, DriverOnly
  <2>2. CASE DriverInit
    BY <2>2 DEF DriverInit, DriverOnly
  <2> QED
    BY <1>2, <2>1, <2>2 DEF DriverStep, DriverInitRequest, DriverAwaitInit,
       DriverSpawnWatchdog, DriverStoreWatchdog, DriverSendInit, DriverSelect, DriverFail,
       DriverJoin, DriverOnly
<1>3. CASE ReadFrame \/ ReadStops
  BY <1>3 DEF ReadFrame, ReadEnd, ReadEvent, ReadInit, ReadTransition, ReadStops, ReaderOnly
<1>4. CASE HandleInitPacket
  BY <1>4 DEF HandleInitPacket, ReadAbortWatchdog, AbortLockedTask, ReadInitResponse,
     ReadActivate, ReadMiddleware, ReadEnsureActivating, ReadOnConnect, ReadReady,
     ReadTransition, ReadHandler, ReadInsertConnection, InsertInto, ReadSendReady,
     ReadOnReady, ReaderOnly
<1>5. CASE WatchdogStep
  BY <1>5 DEF WatchdogStep, WatchdogWakes, WatchdogChecks, WatchdogOnly
<1>6. ASSUME NEW c \in CloseCallers, CloseStep(c) PROVE FlagTypeOK'
  BY <1>6 DEF CloseStep, CloseGet, CloseStore, CloseTrySend, CloserOnly
<1>7. ASSUME NEW c \in Closers, Disconnect(c) \/ DisconnectSend(c) \/ CloseAll(c)
      PROVE  FlagTypeOK'
  BY <1>7 DEF Disconnect, DisconnectSend, CloseAll, CloserOnly
<1>8. ASSUME NEW e \in Emitters, Emit(e) \/ DisconnectAll(e) \/ EmitSend(e)
      PROVE  FlagTypeOK'
  BY <1>8 DEF Emit, DisconnectAll, EmitSend, EmitterOnly
<1>10. CASE OnClose \/ TaskReturns \/ UNCHANGED vars
  BY <1>10 DEF OnClose, TaskReturns, vars
<1> QED
  BY <1>1, <1>2, <1>3, <1>4, <1>5, <1>6, <1>7, <1>8, <1>10 DEF Next

\* Every reachable state of the connection and its tasks is well typed, the
\* bound of the channel included.
THEOREM TypeCorrect == Spec => []TypeOK
<1>1. Init => TypeOK
  <2> SUFFICES ASSUME Init PROVE TypeOK
    OBVIOUS
  <2>1. TaskTypeOK
    BY DEF Init, TaskTypeOK, ConnectionState, DriverPC, InitPC, ReaderPC
  <2>2. FlagTypeOK
    BY DEF Init, FlagTypeOK
  <2>3. ChannelTypeOK
    <3>1. <<>> \in Seq(Message) /\ Len(<<>>) <= Capacity
      BY CapacityAssumption
    <3> QED  BY <3>1 DEF Init, ChannelTypeOK
  <2>4. CallTypeOK
    BY DEF Init, CallTypeOK, ClosePC, EmitPC
  <2> QED  BY <2>1, <2>2, <2>3, <2>4 DEF TypeOK
<1>2. TypeOK /\ [Next]_vars => TypeOK'
  BY TaskTypeStep, FlagTypeStep, ChannelTypeStep, CallTypeStep DEF TypeOK
<1> QED  BY <1>1, <1>2, PTL DEF Spec

(***************************************************************************)
(* Registration: who is in the registries, and when.                       *)
(***************************************************************************)
\* Queueing a message other than Ready does not make Ready queued.
LEMMA ReadyAppended ==
  ASSUME ChannelTypeOK, NEW m \in Message \ {"Ready"},
         Send(m) \/ SendFails \/ TrySend(m), ReadyQueued'
  PROVE  ReadyQueued
  BY DEF ChannelTypeOK, Send, SendFails, TrySend, ReadyQueued

\* Neither does the writer: it only moves messages on or drops them.
LEMMA ReadyWritten ==
  ASSUME ChannelTypeOK, WriterStep, ReadyQueued' PROVE ReadyQueued
<1>1. CASE WriteRecv
  BY <1>1 DEF WriteRecv, ChannelTypeOK, ReadyQueued
<1>2. CASE WriteSend \/ WriteFails \/ WriteStops
  BY <1>2 DEF WriteSend, WriteFails, WriteStops, WriteEnd, ReadyQueued
<1> QED  BY <1>1, <1>2 DEF WriterStep

\* The progress of insert_connection and remove_connection is preserved by
\* every step of every task.
LEMMA RegistrationStep ==
  TypeOK /\ RegistrationInv /\ [Next]_vars => RegistrationInv'
<1> SUFFICES ASSUME TypeOK, RegistrationInv, [Next]_vars PROVE RegistrationInv'
  OBVIOUS
<1> USE DEF RegistrationInv, InsertProgress, ReaderGone, RemoveProgress,
            ReadyPacketMeansRegistered, RemovedStaysRemoved, Removed
<1>0. ChannelTypeOK
  BY DEF TypeOK
<1>a. ASSUME UNCHANGED <<driver, endedBy, reader, registered>>, ReadyQueued' => ReadyQueued
      PROVE  RegistrationInv'
  BY <1>a
<1>1. CASE WriterStep
  BY <1>1, <1>0, <1>a, ReadyWritten DEF WriterStep, WriteRecv, WriteSend, WriteFails,
     WriteStops, WriteEnd, WriterOnly
<1>2. CASE DriverStep
  <2> USE DEF InitPC, RemovePC, RemovedPC
  <2>1. CASE DriverSendInit
    <3>1. ReadyQueued' => ReadyQueued
      BY <2>1, <1>0, ReadyAppended, Kinds DEF DriverSendInit
    <3> QED  BY <2>1, <3>1 DEF DriverSendInit
  <2>2. CASE DriverSelect
    BY <2>2 DEF DriverSelect
  <2>3. CASE DriverJoin
    BY <2>3 DEF DriverJoin, DriverOnly
  <2>4. CASE CleanupRemoveConnection
    <3>0. registered \subseteq Registries
      BY DEF TypeOK, TaskTypeOK
    <3>1. CASE RemoveFrom("connections", "remove_connections", "remove_runtime_ids")
      BY <3>1 DEF RemoveFrom
    <3>2. CASE RemoveFrom("runtime_ids", "remove_runtime_ids", "remove_namespace_ids")
      BY <3>2 DEF RemoveFrom
    <3>3. CASE RemoveFrom("namespace_ids", "remove_namespace_ids", "abort_watchdog")
      BY <3>0, <3>3 DEF RemoveFrom, Registries
    <3> QED  BY ONLY <2>4, <3>1, <3>2, <3>3 DEF CleanupRemoveConnection
  <2>5. CASE CleanupClosing \/ CleanupOnClose \/ CleanupClosed
    BY <2>5 DEF CleanupClosing, CleanupOnClose, CleanupClosed, DriverOnly
  <2>7. CASE CleanupAbortWatchdog \/ CleanupCancel \/ CleanupTakeOnClose
    BY <2>7 DEF CleanupAbortWatchdog, CleanupCancel, CleanupTakeOnClose
  <2>8. CASE DriverInit \/ DriverInitRequest \/ DriverAwaitInit
    BY <2>8 DEF DriverInit, DriverInitRequest, DriverAwaitInit, DriverOnly, ReadyQueued
  <2>9. CASE DriverSpawnWatchdog \/ DriverStoreWatchdog \/ DriverFail
    BY <2>9 DEF DriverSpawnWatchdog, DriverStoreWatchdog, DriverFail, ReadyQueued
  <2> QED
    BY <1>2, <2>1, <2>2, <2>3, <2>4, <2>5, <2>7, <2>8, <2>9 DEF DriverStep, CleanupStep
<1>3. CASE ReadFrame \/ ReadStops
  BY <1>3 DEF ReadFrame, ReadEnd, ReadEvent, ReadInit, ReadTransition, ReadStops, ReadAwaits,
     ReaderOnly, ReadyQueued
<1>4. CASE HandleInitPacket
  <2>1. CASE ReadInsertConnection
    <3>0. registered \subseteq Registries
      BY DEF TypeOK, TaskTypeOK
    <3>1. ASSUME NEW registry \in Registries, NEW from \in InsertPC, NEW to,
                 InsertInto(registry, from, to)
          PROVE  /\ ReadyQueued' => ReadyQueued
                 /\ UNCHANGED <<driver, endedBy>> /\ reader = from /\ reader' = to
                 /\ registered' = registered \cup {registry} /\ reader # "done"
                 /\ registered = Registries => registered' = Registries
      BY <3>1 DEF InsertInto, ReaderOnly, ReadyQueued, InsertPC
    <3>2. CASE InsertInto("connections", "insert_connections", "insert_runtime_ids")
      BY <3>1, <3>2 DEF InsertPC, Registries, InitPC, RemovePC, RemovedPC
    <3>3. CASE InsertInto("runtime_ids", "insert_runtime_ids", "insert_namespace_ids")
      BY <3>1, <3>3 DEF InsertPC, Registries, InitPC, RemovePC, RemovedPC
    <3>4. CASE InsertInto("namespace_ids", "insert_namespace_ids", "send_ready")
      BY <3>0, <3>1, <3>4 DEF InsertPC, Registries, InitPC, RemovePC, RemovedPC
    <3> QED  BY ONLY <2>1, <3>2, <3>3, <3>4 DEF ReadInsertConnection
  <2>2. CASE ReadSendReady
    BY <2>2 DEF ReadSendReady, ReaderOnly, SendFails, ReadyQueued
  <2>3. CASE ReadOnReady
    BY <2>3 DEF ReadOnReady, ReadyQueued
  <2>4. CASE ReadInitResponse \/ ReadMiddleware \/ ReadOnConnect \/ ReadAbortWatchdog
    BY <2>4 DEF ReadInitResponse, ReadMiddleware, ReadOnConnect, ReadHandler,
       ReadAbortWatchdog, ReaderOnly, ReadyQueued
  <2>5. CASE ReadActivate \/ ReadReady \/ ReadEnsureActivating
    BY <2>5 DEF ReadActivate, ReadReady, ReadEnsureActivating, ReadTransition, ReaderOnly,
       AfterActivate, AfterMiddleware, ReadyQueued
  <2> QED  BY <1>4, <2>1, <2>2, <2>3, <2>4, <2>5 DEF HandleInitPacket
<1>5. CASE WatchdogStep
  BY <1>5, <1>a DEF WatchdogStep, WatchdogWakes, WatchdogChecks, WatchdogOnly, ReadyQueued
<1>6. ASSUME NEW c \in CloseCallers, CloseStep(c) PROVE RegistrationInv'
  <2>1. ReadyQueued' => ReadyQueued
    BY <1>0, <1>6, ReadyAppended, Kinds
       DEF CloseStep, CloseGet, CloseStore, CloseTrySend, SendFails, ReadyQueued
  <2> QED
    BY <1>6, <1>a, <2>1 DEF CloseStep, CloseGet, CloseStore, CloseTrySend, CloserOnly
<1>7. ASSUME NEW c \in Closers, Disconnect(c) \/ DisconnectSend(c) \/ CloseAll(c)
      PROVE  RegistrationInv'
  <2>1. ReadyQueued' => ReadyQueued
    BY <1>0, <1>7, ReadyAppended, Kinds DEF Disconnect, DisconnectSend, CloseAll, ReadyQueued
  <2> QED  BY <1>7, <1>a, <2>1 DEF Disconnect, DisconnectSend, CloseAll, CloserOnly
<1>8. ASSUME NEW e \in Emitters, Emit(e) \/ DisconnectAll(e) \/ EmitSend(e)
      PROVE  RegistrationInv'
  <2>1. ReadyQueued' => ReadyQueued
    BY <1>0, <1>8, ReadyAppended, Kinds DEF Emit, DisconnectAll, EmitSend, ReadyQueued
  <2> QED  BY <1>8, <1>a, <2>1 DEF Emit, DisconnectAll, EmitSend, EmitterOnly
<1>10. CASE OnClose \/ TaskReturns \/ UNCHANGED vars
  BY <1>10, <1>a DEF OnClose, TaskReturns, vars, ReadyQueued
<1> QED
  BY <1>1, <1>2, <1>3, <1>4, <1>5, <1>6, <1>7, <1>8, <1>10 DEF Next

LEMMA RegistrationCorrect == Spec => []RegistrationInv
<1>1. Init => RegistrationInv
  BY DEF Init, RegistrationInv, InsertProgress, ReaderGone, RemoveProgress, InitPC,
     ReadyPacketMeansRegistered, RemovedStaysRemoved, ReadyQueued
<1> QED  BY <1>1, RegistrationStep, TypeCorrect, PTL DEF Spec

\* A queued or sent Ready packet means a fully registered connection until
\* cleanup begins: handle_init_packet inserts into the two namespace maps and
\* the runtime's before it sends.
THEOREM ReadyMeansRegistered == Spec => []ReadyPacketMeansRegistered
<1>1. RegistrationInv => ReadyPacketMeansRegistered
  BY DEF RegistrationInv
<1> QED  BY <1>1, RegistrationCorrect, PTL

\* When the reader ended first or init() failed, a finished cleanup leaves no
\* trace of the connection in any registry, and no task puts it back.
THEOREM CleanupIsFinal == Spec => []RemovedStaysRemoved
<1>1. RegistrationInv => RemovedStaysRemoved
  BY DEF RegistrationInv
<1> QED  BY <1>1, RegistrationCorrect, PTL

(***************************************************************************)
(* The life cycle.                                                         *)
(***************************************************************************)
\* A step leaves `state` alone, advances it by a compare-and-swap, or stores
\* Closing or Closed.
LEMMA StateStep ==
  [Next]_vars =>
    \/ state' \in {state} \cup Ended
    \/ state = "Created" /\ state' = "AwaitingInit"
    \/ state = "AwaitingInit" /\ state' = "Initiating"
    \/ state = "Initiating" /\ state' = "Activating"
    \/ state = "Activating" /\ state' = "Ready"
<1> SUFFICES ASSUME [Next]_vars, state' \notin {state} \cup Ended
             PROVE  \/ state = "Created" /\ state' = "AwaitingInit"
                    \/ state = "AwaitingInit" /\ state' = "Initiating"
                    \/ state = "Initiating" /\ state' = "Activating"
                    \/ state = "Activating" /\ state' = "Ready"
  OBVIOUS
<1> USE DEF Ended
<1>1. ~ WriterStep
  BY DEF WriterStep, WriteRecv, WriteSend, WriteFails, WriteStops, WriteEnd, WriterOnly
<1>2. ~ CleanupStep
  BY DEF CleanupStep, CleanupClosing, CleanupRemoveConnection, RemoveFrom,
     CleanupAbortWatchdog, CleanupCancel, CleanupTakeOnClose, CleanupOnClose, CleanupClosed
<1>3. CASE DriverStep
  BY <1>2, <1>3 DEF DriverStep, DriverInit, DriverInitRequest, DriverAwaitInit,
     DriverSpawnWatchdog, DriverStoreWatchdog, DriverSendInit, DriverSelect, DriverFail,
     DriverJoin
<1>4. CASE ReadFrame \/ ReadStops
  BY <1>4 DEF ReadFrame, ReadEnd, ReadEvent, ReadInit, ReadTransition, ReadStops
<1>5. CASE HandleInitPacket
  BY <1>5 DEF HandleInitPacket, ReadAbortWatchdog, ReadInitResponse, ReadActivate,
     ReadMiddleware, ReadEnsureActivating, ReadOnConnect, ReadReady, ReadTransition,
     ReadHandler, ReadInsertConnection, InsertInto, ReadSendReady, ReadOnReady
<1>6. ~ WatchdogStep /\ \A c \in CloseCallers : ~ CloseStep(c)
  BY DEF WatchdogStep, WatchdogWakes, WatchdogChecks, WatchdogOnly, CloseStep, CloseGet,
     CloseStore, CloseTrySend
<1>7. \A c \in Closers : ~ (Disconnect(c) \/ DisconnectSend(c) \/ CloseAll(c))
  BY DEF Disconnect, DisconnectSend, CloseAll
<1>8. \A e \in Emitters : ~ (Emit(e) \/ DisconnectAll(e) \/ EmitSend(e))
  BY DEF Emit, DisconnectAll, EmitSend, EmitterOnly
<1>9. ~ (OnClose \/ TaskReturns \/ UNCHANGED vars)
  BY DEF OnClose, TaskReturns, vars
<1> QED  BY <1>1, <1>3, <1>4, <1>5, <1>6, <1>7, <1>8, <1>9 DEF Next

\* No task ever moves a Closing or Closed connection back into the handshake
\* or to Ready: the transitions of handle_init_packet and init() are
\* compare-and-swaps from live states, all other writes store Closing/Closed.
THEOREM ConnectionNeverResurrected == Spec => NoResurrection
<1>1. [Next]_vars => ((state \in Ended) => (state' \in Ended))
  BY StateStep DEF Ended
<1> QED  BY <1>1, PTL DEF Spec, NoResurrection

(***************************************************************************)
(* The Ready packet.                                                       *)
(***************************************************************************)
\* The Ready packet is queued, or the reader is on its way to send it.
ReadyDue == ReadyQueued \/ reader \in InsertPC \cup {"send_ready", "on_ready"}

\* Only the step that makes an Activating connection Ready starts it.
LEMMA ReadyDueStep ==
  ASSUME TypeOK, [Next]_vars, ReadyDue'
  PROVE  ReadyDue \/ (state = "Activating" /\ state' = "Ready")
<1> USE DEF ReadyDue
<1>0. ChannelTypeOK
  BY DEF TypeOK
<1>1. ASSUME reader' = reader, ReadyQueued' => ReadyQueued PROVE ReadyDue
  BY <1>1
<1>2. CASE WriterStep
  BY <1>0, <1>1, <1>2, ReadyWritten DEF WriterStep, WriteRecv, WriteSend, WriteFails,
     WriteStops, WriteEnd, WriterOnly
<1>3. CASE DriverStep
  <2>1. CASE DriverSendInit
    BY <1>0, <1>1, <2>1, ReadyAppended, Kinds DEF DriverSendInit
  <2>2. CASE CleanupStep
    BY <1>1, <2>2 DEF CleanupStep, CleanupClosing, CleanupRemoveConnection, RemoveFrom,
       CleanupAbortWatchdog, CleanupCancel, CleanupTakeOnClose, CleanupOnClose, CleanupClosed,
       DriverOnly, ReadyQueued
  <2> QED
    BY <1>1, <1>3, <2>1, <2>2 DEF DriverStep, DriverInit, DriverInitRequest, DriverAwaitInit,
       DriverSpawnWatchdog, DriverStoreWatchdog, DriverSelect, DriverFail, DriverJoin,
       DriverOnly, ReadyQueued
<1>4. CASE ReadFrame \/ ReadStops
  BY <1>4 DEF ReadFrame, ReadEnd, ReadEvent, ReadInit, ReadTransition, ReadStops, ReadAwaits,
     ReadyQueued, InsertPC
<1>5. CASE HandleInitPacket
  <2> USE DEF InsertPC
  <2>1. CASE ReadInsertConnection \/ ReadSendReady \/ ReadOnReady
    BY <2>1 DEF ReadInsertConnection, InsertInto, ReadSendReady, ReadOnReady
  <2>2. CASE ReadInitResponse \/ ReadMiddleware \/ ReadOnConnect \/ ReadAbortWatchdog
    BY <2>2 DEF ReadInitResponse, ReadMiddleware, ReadOnConnect, ReadHandler,
       ReadAbortWatchdog, ReadyQueued
  <2>3. CASE ReadActivate \/ ReadReady \/ ReadEnsureActivating
    BY <2>3 DEF ReadActivate, ReadReady, ReadEnsureActivating, ReadTransition,
       AfterActivate, AfterMiddleware, ReadyQueued
  <2> QED  BY <1>5, <2>1, <2>2, <2>3 DEF HandleInitPacket
<1>6. CASE WatchdogStep
  BY <1>1, <1>6 DEF WatchdogStep, WatchdogWakes, WatchdogChecks, WatchdogOnly, ReadyQueued
<1>7. ASSUME NEW c \in CloseCallers, CloseStep(c) PROVE ReadyDue
  <2>1. ReadyQueued' => ReadyQueued
    BY <1>0, <1>7, ReadyAppended, Kinds
       DEF CloseStep, CloseGet, CloseStore, CloseTrySend, SendFails, ReadyQueued
  <2> QED  BY <1>1, <1>7, <2>1 DEF CloseStep, CloseGet, CloseStore, CloseTrySend, CloserOnly
<1>8. ASSUME NEW c \in Closers, Disconnect(c) \/ DisconnectSend(c) \/ CloseAll(c) PROVE ReadyDue
  <2>1. ReadyQueued' => ReadyQueued
    BY <1>0, <1>8, ReadyAppended, Kinds DEF Disconnect, DisconnectSend, CloseAll, ReadyQueued
  <2> QED  BY <1>1, <1>8, <2>1 DEF Disconnect, DisconnectSend, CloseAll, CloserOnly
<1>9. ASSUME NEW e \in Emitters, Emit(e) \/ DisconnectAll(e) \/ EmitSend(e) PROVE ReadyDue
  <2>1. ReadyQueued' => ReadyQueued
    BY <1>0, <1>9, ReadyAppended, Kinds DEF Emit, DisconnectAll, EmitSend, ReadyQueued
  <2> QED  BY <1>1, <1>9, <2>1 DEF Emit, DisconnectAll, EmitSend, EmitterOnly
<1>10. CASE OnClose \/ TaskReturns \/ UNCHANGED vars
  BY <1>1, <1>10 DEF OnClose, TaskReturns, vars, ReadyQueued
<1> QED
  BY <1>2, <1>3, <1>4, <1>5, <1>6, <1>7, <1>8, <1>9, <1>10 DEF Next

\* The Ready packet is on its way only once the connection was Ready.
StageInv == ReadyDue => state \in {"Ready"} \cup Ended

LEMMA StageCorrect == Spec => []StageInv
<1>1. Init => StageInv
  BY DEF Init, StageInv, ReadyDue, ReadyQueued, InsertPC
<1>2. TypeOK /\ StageInv /\ [Next]_vars => StageInv'
  BY StateStep, ReadyDueStep DEF StageInv, Ended
<1> QED  BY <1>1, <1>2, TypeCorrect, PTL DEF Spec

\* What goes out on the socket is what the writer holds.
LEMMA SentStep ==
  [Next]_vars => \/ sent' = sent
                 \/ sent' = sent \cup {writing} /\ UNCHANGED <<state, driver>>
<1> SUFFICES ASSUME [Next]_vars, sent' # sent
             PROVE  sent' = sent \cup {writing} /\ UNCHANGED <<state, driver>>
  OBVIOUS
<1>1. CASE WriterStep
  BY <1>1 DEF WriterStep, WriteRecv, WriteSend, WriteFails, WriteStops, WriteEnd, WriterOnly,
     Milestones
<1>2. ~ CleanupStep
  BY DEF CleanupStep, CleanupClosing, CleanupRemoveConnection, RemoveFrom, DriverOnly,
     CleanupAbortWatchdog, CleanupCancel, CleanupTakeOnClose, CleanupOnClose, CleanupClosed
<1>3. ~ DriverStep
  BY <1>2 DEF DriverStep, DriverInit, DriverInitRequest, DriverAwaitInit, DriverOnly,
     DriverSpawnWatchdog, DriverStoreWatchdog, DriverSendInit, DriverSelect, DriverFail,
     DriverJoin, Send, SendFails
<1>4. ~ (ReadFrame \/ ReadStops)
  BY DEF ReadFrame, ReadEnd, ReadEvent, ReadInit, ReadTransition, ReadStops
<1>5. ~ HandleInitPacket
  BY DEF HandleInitPacket, ReadAbortWatchdog, ReadInitResponse, ReadActivate,
     ReadMiddleware, ReadEnsureActivating, ReadOnConnect, ReadReady, ReadTransition,
     ReadHandler, ReadInsertConnection, InsertInto, ReadSendReady, ReadOnReady, Send, SendFails
<1>6. ~ WatchdogStep /\ \A c \in CloseCallers : ~ CloseStep(c)
  BY DEF WatchdogStep, WatchdogWakes, WatchdogChecks, WatchdogOnly, CloseStep, CloseGet,
     CloseStore, CloseTrySend, TrySend
<1>7. \A c \in Closers : ~ (Disconnect(c) \/ DisconnectSend(c) \/ CloseAll(c))
  BY DEF Disconnect, DisconnectSend, CloseAll, Send, SendFails
<1>8. \A e \in Emitters : ~ (Emit(e) \/ DisconnectAll(e) \/ EmitSend(e))
  BY DEF Emit, DisconnectAll, EmitSend, Send, SendFails
<1>9. ~ (OnClose \/ TaskReturns \/ UNCHANGED vars)
  BY DEF OnClose, TaskReturns, vars
<1> QED  BY <1>1, <1>3, <1>4, <1>5, <1>6, <1>7, <1>8, <1>9 DEF Next

(***************************************************************************)
(* The timers of the handshake.                                            *)
(***************************************************************************)
\* A step that touches neither the state, the driver, the reader nor the
\* watchdog and its close() keeps GuardInv.
LEMMA GuardBystander ==
  ASSUME GuardInv, UNCHANGED <<state, driver, reader, watchdog>>,
         closing'["watchdog"] = closing["watchdog"]
  PROVE  GuardInv'
  BY DEF GuardInv, HandshakeGuarded

LEMMA GuardStep == TypeOK /\ StageInv /\ GuardInv /\ [Next]_vars => GuardInv'
<1> SUFFICES ASSUME TypeOK, StageInv, GuardInv, [Next]_vars PROVE GuardInv'
  OBVIOUS
<1>0. closing \in [CloseCallers -> ClosePC] /\ "watchdog" \in CloseCallers /\ "driver" \in CloseCallers
  BY DEF TypeOK, CallTypeOK, CloseCallers
<1> USE DEF Ended, RemovePC, RemovedPC
<1>1. CASE WriterStep
  BY <1>1, GuardBystander
     DEF WriterStep, WriteRecv, WriteSend, WriteFails, WriteStops, WriteEnd, WriterOnly
<1>2. CASE DriverStep
  <2> USE DEF GuardInv, HandshakeGuarded
  <2>1. CASE DriverInit \/ DriverInitRequest \/ DriverAwaitInit
    BY <2>1 DEF DriverInit, DriverInitRequest, DriverAwaitInit, DriverOnly
  <2>2. CASE DriverSpawnWatchdog \/ DriverStoreWatchdog \/ DriverSendInit \/ DriverSelect
    BY <2>2 DEF DriverSpawnWatchdog, DriverStoreWatchdog, DriverSendInit, DriverSelect
  <2>3. CASE DriverFail
    BY <1>0, <2>3 DEF DriverFail
  <2>4. CASE DriverJoin
    BY <2>4 DEF DriverJoin, DriverOnly
  <2>5. CASE CleanupStep
    BY <2>5 DEF CleanupStep, CleanupClosing, CleanupRemoveConnection, RemoveFrom,
       CleanupAbortWatchdog, AbortLockedTask, CleanupCancel, CleanupTakeOnClose, CleanupOnClose,
       CleanupClosed, DriverOnly
  <2> QED  BY <1>2, <2>1, <2>2, <2>3, <2>4, <2>5 DEF DriverStep
<1>3. CASE ReadFrame \/ ReadStops
  BY <1>3 DEF GuardInv, HandshakeGuarded, ReadFrame, ReadEnd, ReadEvent, ReadInit, ReadTransition,
     ReadStops, ReaderOnly
<1>4. CASE HandleInitPacket
  <2> USE DEF GuardInv, HandshakeGuarded, ReaderOnly
  <2>1. CASE ReadAbortWatchdog
    BY <2>1 DEF ReadAbortWatchdog, AbortLockedTask
  <2>2. CASE ReadInitResponse \/ ReadMiddleware \/ ReadOnConnect
    BY <2>2 DEF ReadInitResponse, ReadMiddleware, ReadOnConnect, ReadHandler
  <2>3. CASE ReadActivate \/ ReadReady \/ ReadEnsureActivating
    BY <2>3 DEF ReadActivate, ReadReady, ReadEnsureActivating, ReadTransition, AfterActivate,
       AfterMiddleware
  <2>4. CASE ReadInsertConnection \/ ReadSendReady
    BY <2>4 DEF ReadInsertConnection, InsertInto, ReadSendReady
  <2>5. CASE ReadOnReady
    BY <2>5 DEF ReadOnReady, StageInv, ReadyDue
  <2> QED  BY <1>4, <2>1, <2>2, <2>3, <2>4, <2>5 DEF HandleInitPacket
<1>5. CASE WatchdogStep
  BY <1>0, <1>5 DEF GuardInv, HandshakeGuarded, WatchdogStep, WatchdogWakes, WatchdogChecks,
     WatchdogOnly
<1>6. ASSUME NEW c \in CloseCallers, CloseStep(c) PROVE GuardInv'
  BY <1>0, <1>6 DEF GuardInv, HandshakeGuarded, CloseStep, CloseGet, CloseStore, CloseTrySend,
     CloserOnly
<1>7. ASSUME NEW c \in Closers, Disconnect(c) \/ DisconnectSend(c) \/ CloseAll(c)
      PROVE  GuardInv'
  <2>1. c # "watchdog"
    BY ClosersAssumption
  <2> QED
    BY <1>0, <1>7, <2>1, GuardBystander DEF Disconnect, DisconnectSend, CloseAll, CloserOnly
<1>8. ASSUME NEW e \in Emitters, Emit(e) \/ DisconnectAll(e) \/ EmitSend(e) PROVE GuardInv'
  BY <1>8, GuardBystander DEF Emit, DisconnectAll, EmitSend, EmitterOnly
<1>9. CASE OnClose \/ TaskReturns \/ UNCHANGED vars
  BY <1>9, GuardBystander DEF OnClose, TaskReturns, vars
<1> QED  BY <1>1, <1>2, <1>3, <1>4, <1>5, <1>6, <1>7, <1>8, <1>9 DEF Next

\* The handshake never waits for the peer without a timer: the watchdog runs
\* as long as the state is AwaitingInit, however its abort, its own check and
\* the reader's compare-and-swap interleave, and an accepted Init packet is
\* never left half handled by a reader that goes on to the next frame.
THEOREM HandshakeIsGuarded == Spec => []HandshakeGuarded
<1>1. Init => GuardInv
  BY DEF Init, GuardInv, HandshakeGuarded, Ended, RemovePC, RemovedPC, CloseCallers
<1>2. GuardInv => HandshakeGuarded
  BY DEF GuardInv
<1> QED  BY <1>1, <1>2, GuardStep, StageCorrect, TypeCorrect, PTL DEF Spec

=============================================================================
