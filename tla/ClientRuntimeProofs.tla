-------------------------- MODULE ClientRuntimeProofs --------------------------
(***************************************************************************)
(* Theorems about ClientRuntime, for every set of calling tasks, every     *)
(* queue and channel size and every bound on sessions and events.          *)
(***************************************************************************)
EXTENDS ClientRuntime, SequenceTheorems, TLAPS

\* The groups of variables are always expanded.
USE DEF opVars, sessionVars, streamVars, queueVars, senderVars

(***************************************************************************)
(* Type correctness.                                                       *)
(***************************************************************************)
\* A send that found room leaves a bounded channel within its bound.
LEMMA SendToSeq ==
  ASSUME NEW S, NEW q \in Seq(S), NEW x \in S, NEW n \in Nat, Len(q) < n
  PROVE  Append(q, x) \in Seq(S) /\ Len(Append(q, x)) <= n
  OBVIOUS

\* A receive takes one message off a bounded channel.
LEMMA ReceiveFromSeq ==
  ASSUME NEW S, NEW q \in Seq(S), q # <<>>, NEW n \in Nat, Len(q) <= n
  PROVE  Head(q) \in S /\ Tail(q) \in Seq(S) /\ Len(Tail(q)) <= n
  OBVIOUS

\* No step takes the status, the locks, or a program counter of a call or of
\* the loop out of its type.
LEMMA OpTypeStep == OpTypeOK /\ [Next]_vars => OpTypeOK'
<1> SUFFICES ASSUME OpTypeOK, [Next]_vars PROVE OpTypeOK'
  OBVIOUS
<1> USE DEF OpTypeOK, OpPC, LoopPC
<1>1. ASSUME NEW c \in Callers, Connect(c) \/ Disconnect(c) PROVE OpTypeOK'
  BY <1>1 DEF Connect, Disconnect, Goto, OpOnly, CallOnly, Ops
<1>2. ASSUME NEW c \in Ops, OpStep(c) PROVE OpTypeOK'
  <2>1. CASE TakeOperateLock(c)
    BY <2>1 DEF TakeOperateLock, Goto, OpOnly, CallOnly
  <2>2. CASE ConnectStatus(c) \/ DisconnectStatus(c)
    BY <2>2 DEF ConnectStatus, DisconnectStatus, Goto, OpOnly, CallOnly
  <2>3. CASE ConnectToken(c) \/ ConnectSpawnLoop(c) \/ ConnectSpawnSender(c)
    BY <2>3 DEF ConnectToken, ConnectSpawnLoop, ConnectSpawnSender, Goto, OpOnly, CallOnly
  <2>4. CASE DisconnectAbortSender(c) \/ DisconnectCancel(c) \/ DisconnectLockRx(c)
             \/ DisconnectDrain(c)
    BY <2>4 DEF DisconnectAbortSender, DisconnectCancel, DisconnectLockRx,
       DisconnectDrain, CancelToken, Goto, OpOnly, CallOnly
  <2>5. CASE DisconnectAwaitLoop(c) \/ DisconnectStopped(c)
    BY <2>5 DEF DisconnectAwaitLoop, DisconnectStopped, Goto, OpOnly, CallOnly
  <2> QED  BY <1>2, <2>1, <2>2, <2>3, <2>4, <2>5 DEF OpStep
<1>3. ASSUME NEW c \in Ops, HandlerDropped(c) PROVE OpTypeOK'
  BY <1>3 DEF HandlerDropped, Goto, OpOnly, CallOnly
<1>4. CASE LoopStep \/ LoopConnectFails \/ LoopConnected
  BY <1>4 DEF LoopStep, LoopCheck, LoopStore, LoopStreamEnds, LoopCancelled, LoopGraceful,
     LoopGracefulTimeout, LoopJoinReader, LoopJoinWriter, LoopClear, LoopCleanup, LoopClosed,
     LoopPause, LoopConnectFails, LoopConnected, LoopOnly, CancelToken
<1>5. CASE ReadNotify \/ ReadDisconnect \/ ReadEvent
  BY <1>5 DEF ReadNotify, ReadDisconnect, ReadEvent, SpawnHandler, Goto, StreamOnly, Ops
<1>6. CASE ReadReady \/ ReadEnds \/ SessionTimesOut \/ WriteMessage \/ WriteEnds
  BY <1>6 DEF ReadReady, ReadEnds, SessionTimesOut, WriteMessage, WriteEnds,
     StreamOnly
<1>7. ASSUME NEW e \in Emitters, Emit(e) \/ EmitSend(e) PROVE OpTypeOK'
  BY <1>7 DEF Emit, EmitSend, EmitOnly
<1>8. CASE SenderStep \/ SenderStops \/ UNCHANGED vars
  BY <1>8 DEF SenderStep, SenderLock, SenderRecv, SenderTry, SenderSend, SenderRegister,
     SenderWoken, SenderStops, SenderOnly, vars
<1> QED  BY <1>1, <1>2, <1>3, <1>4, <1>5, <1>6, <1>7, <1>8 DEF Next

\* No step takes a session's life, its stream tasks or the session slot out
\* of their types.
LEMMA SessionTypeStep == SessionTypeOK /\ [Next]_vars => SessionTypeOK'
<1> SUFFICES ASSUME SessionTypeOK, [Next]_vars PROVE SessionTypeOK'
  OBVIOUS
<1> USE BoundsAssumption DEF SessionTypeOK, Sessions
<1>1. ASSUME NEW c \in Ops,
             (c \in Callers /\ (Connect(c) \/ Disconnect(c))) \/ OpStep(c) \/ HandlerDropped(c)
      PROVE  SessionTypeOK'
  BY <1>1 DEF Connect, Disconnect, OpStep, TakeOperateLock, ConnectStatus, ConnectToken,
     ConnectSpawnLoop, ConnectSpawnSender, DisconnectStatus, DisconnectAbortSender,
     DisconnectCancel, DisconnectLockRx, DisconnectDrain, DisconnectAwaitLoop,
     DisconnectStopped, HandlerDropped, OpOnly, CallOnly
<1>2. CASE LoopStep
  <2>1. CASE LoopCancelled
    BY <2>1 DEF LoopCancelled, CloseSession, LoopOnly
  <2>2. CASE LoopStreamEnds \/ LoopGraceful \/ LoopGracefulTimeout
    BY <2>2 DEF LoopStreamEnds, LoopGraceful, LoopGracefulTimeout, LoopOnly
  <2>3. CASE LoopStore \/ LoopClear
    <3>1. slot' \in 0..MaxSessions
      BY <2>3 DEF LoopStore, LoopClear
    <3>2. UNCHANGED <<created, life, pings, reader, writer, aborted>>
      BY <2>3 DEF LoopStore, LoopClear
    <3> QED  BY <3>1, <3>2
  <2>4. CASE LoopCleanup \/ LoopClosed
    BY <2>4 DEF LoopCleanup, LoopClosed, LoopOnly
  <2>5. CASE LoopCheck \/ LoopJoinReader \/ LoopJoinWriter \/ LoopPause
    BY <2>5 DEF LoopCheck, LoopJoinReader, LoopJoinWriter, LoopPause, LoopOnly
  <2> QED  BY ONLY <1>2, <2>1, <2>2, <2>3, <2>4, <2>5 DEF LoopStep
<1>3. CASE LoopConnectFails
  BY <1>3 DEF LoopConnectFails, LoopOnly
<1>4. CASE LoopConnected
  BY <1>4 DEF LoopConnected, LoopOnly
<1>5. CASE ReadReady \/ ReadNotify \/ ReadDisconnect \/ ReadEvent \/ ReadEnds
  BY <1>5 DEF ReadReady, ReadNotify, ReadDisconnect, ReadEvent, ReadEnds, StreamOnly
<1>6. CASE SessionTimesOut
  BY <1>6 DEF SessionTimesOut, CloseSession, StreamOnly
<1>7. CASE WriteMessage \/ WriteEnds
  BY <1>7 DEF WriteMessage, WriteEnds, StreamOnly
<1>8. ASSUME NEW e \in Emitters, Emit(e) \/ EmitSend(e) PROVE SessionTypeOK'
  BY <1>8 DEF Emit, EmitSend, EmitOnly
<1>9. CASE SenderStep \/ SenderStops \/ UNCHANGED vars
  BY <1>9 DEF SenderStep, SenderLock, SenderRecv, SenderTry, SenderSend, SenderRegister,
     SenderWoken, SenderStops, SenderOnly, vars
<1> QED
  BY <1>1, <1>2, <1>3, <1>4, <1>5, <1>6, <1>7, <1>8, <1>9 DEF Next, Ops

\* No step overfills the event queue or a session's channel, or puts
\* anything but emitted events into the queue.
LEMMA QueueTypeStep == QueueTypeOK /\ SessionTypeOK /\ [Next]_vars => QueueTypeOK'
<1> SUFFICES ASSUME QueueTypeOK, SessionTypeOK, [Next]_vars PROVE QueueTypeOK'
  OBVIOUS
<1> USE BoundsAssumption, SizesAssumption DEF QueueTypeOK, SenderHolds
<1>e. Events \subseteq Nat /\ \A n \in 0..MaxEvents : n # 0 => n \in Events
  BY DEF Events
<1>0. ASSUME outbox' = <<>>, UNCHANGED <<queue, emitted, emitting, event, sender, delivered>>
      PROVE  QueueTypeOK'
  <2>1. <<>> \in Seq(Events \cup {CLOSE}) /\ Len(<<>>) <= ChannelSize
    OBVIOUS
  <2> QED  BY <1>0, <2>1
<1>1. ASSUME NEW c \in Ops,
             (c \in Callers /\ (Connect(c) \/ Disconnect(c))) \/ OpStep(c) \/ HandlerDropped(c)
      PROVE  QueueTypeOK'
  <2>1. CASE DisconnectDrain(c)
    <3>1. queue' \in Seq(Events) /\ Len(queue') <= QueueSize
      BY <2>1, ReceiveFromSeq DEF DisconnectDrain
    <3>2. UNCHANGED <<emitted, event, sender, emitting, outbox, delivered>>
      BY <2>1 DEF DisconnectDrain
    <3> QED  BY <3>1, <3>2
  <2> QED
    BY <1>1, <2>1 DEF Connect, Disconnect, OpStep, TakeOperateLock, ConnectStatus,
       ConnectToken, ConnectSpawnLoop, ConnectSpawnSender, DisconnectStatus,
       DisconnectAbortSender, DisconnectCancel, DisconnectLockRx, DisconnectAwaitLoop,
       DisconnectStopped, HandlerDropped, OpOnly, CallOnly
<1>2. ASSUME CloseSession, UNCHANGED <<queue, emitted, emitting, event, sender, delivered>>
      PROVE  QueueTypeOK'
  <2>1. outbox' \in Seq(Events \cup {CLOSE}) /\ Len(outbox') <= ChannelSize
    BY <1>2, SendToSeq DEF CloseSession
  <2> QED  BY <1>2, <2>1
<1>3. CASE LoopStep
  BY <1>2, <1>3 DEF LoopStep, LoopCheck, LoopStore, LoopStreamEnds, LoopCancelled,
     LoopGraceful, LoopGracefulTimeout, LoopJoinReader, LoopJoinWriter, LoopClear,
     LoopCleanup, LoopClosed, LoopPause, LoopOnly
<1>4. CASE LoopConnectFails \/ LoopConnected
  <2>1. CASE LoopConnectFails
    BY <2>1 DEF LoopConnectFails, LoopOnly
  <2>2. CASE LoopConnected
    BY <1>0, <2>2 DEF LoopConnected, LoopOnly
  <2> QED  BY <1>4, <2>1, <2>2
<1>5. CASE ReadReady \/ ReadNotify \/ ReadDisconnect \/ ReadEvent \/ ReadEnds \/ SessionTimesOut
  BY <1>2, <1>5 DEF ReadReady, ReadNotify, ReadDisconnect, ReadEvent, ReadEnds, SessionTimesOut,
     StreamOnly
<1>6. CASE WriteMessage
  <2>0. UNCHANGED <<queue, emitted, emitting, event, sender>>
    BY <1>6 DEF WriteMessage
  <2>1. Head(outbox) \in Events \cup {CLOSE} /\ Tail(outbox) \in Seq(Events \cup {CLOSE})
        /\ Len(Tail(outbox)) <= ChannelSize
    BY <1>6, ReceiveFromSeq DEF WriteMessage
  <2>2. CASE Head(outbox) = CLOSE
    BY <1>0, <1>6, <2>0, <2>2 DEF WriteMessage
  <2>3. CASE Head(outbox) # CLOSE
    <3>1. \A s \in Sessions : Append(delivered[s], Head(outbox)) \in Seq(Events)
      BY <2>1, <2>3
    <3> QED  BY <1>6, <2>0, <2>1, <2>3, <3>1 DEF WriteMessage
  <2> QED  BY <2>2, <2>3
<1>7. CASE WriteEnds
  BY <1>0, <1>7 DEF WriteEnds, StreamOnly
<1>8. ASSUME NEW e \in Emitters, Emit(e) \/ EmitSend(e) PROVE QueueTypeOK'
  <2>1. CASE Emit(e)
    BY <2>1 DEF Emit, EmitOnly
  <2>2. CASE EmitSend(e)
    <3>1. emitted' \in 1..MaxEvents
      BY <2>2 DEF EmitSend
    <3>2. queue' \in Seq(Events) /\ Len(queue') <= QueueSize
      BY <2>2, <3>1, SendToSeq DEF EmitSend, Events
    <3> QED  BY <2>2, <3>1, <3>2 DEF EmitSend, EmitOnly
  <2> QED  BY <1>8, <2>1, <2>2
<1>9. CASE SenderStep
  <2>1. CASE SenderRecv
    <3>1. queue' \in Seq(Events) /\ Len(queue') <= QueueSize /\ event' \in Events
      BY <2>1, ReceiveFromSeq DEF SenderRecv
    <3>2. event' \in 0..MaxEvents /\ event' # 0
      BY <3>1 DEF Events
    <3> QED  BY <2>1, <3>1, <3>2 DEF SenderRecv, SenderOnly
  <2>2. ASSUME NEW from \in SenderHolds, NEW otherwise \in SenderHolds,
               SenderSend(from, otherwise)
        PROVE  QueueTypeOK'
    <3>1. event \in Events
      BY <1>e, <2>2 DEF SenderSend
    <3>2. CASE outbox' = Append(outbox, event) /\ Len(outbox) < ChannelSize
               /\ sender' = "recv" /\ event' = 0
      <4>1. outbox' \in Seq(Events \cup {CLOSE}) /\ Len(outbox') <= ChannelSize
        BY <3>1, <3>2, SendToSeq
      <4> QED  BY <2>2, <3>2, <4>1 DEF SenderSend, SenderOnly
    <3>3. CASE UNCHANGED <<outbox, event>>
      BY <2>2, <3>3 DEF SenderSend, SenderOnly
    <3> QED  BY <2>2, <3>2, <3>3 DEF SenderSend
  <2> QED
    BY <1>9, <2>1, <2>2 DEF SenderStep, SenderLock, SenderTry, SenderRegister, SenderWoken,
       SenderOnly
<1>10. CASE SenderStops \/ UNCHANGED vars
  BY <1>10 DEF SenderStops, SenderOnly, vars
<1> QED
  BY <1>1, <1>3, <1>4, <1>5, <1>6, <1>7, <1>8, <1>9, <1>10 DEF Next, Ops

\* No step takes the sender's state out of its type.
LEMMA SenderTypeStep == SenderTypeOK /\ SessionTypeOK /\ [Next]_vars => SenderTypeOK'
<1> SUFFICES ASSUME SenderTypeOK, SessionTypeOK, [Next]_vars PROVE SenderTypeOK'
  OBVIOUS
<1> USE BoundsAssumption DEF SenderTypeOK, SenderPC
<1>1. ASSUME NEW c \in Ops,
             (c \in Callers /\ (Connect(c) \/ Disconnect(c))) \/ OpStep(c) \/ HandlerDropped(c)
      PROVE  SenderTypeOK'
  BY <1>1 DEF Connect, Disconnect, OpStep, TakeOperateLock, ConnectStatus, ConnectToken,
     ConnectSpawnLoop, ConnectSpawnSender, DisconnectStatus, DisconnectAbortSender,
     DisconnectCancel, DisconnectLockRx, DisconnectDrain, DisconnectAwaitLoop,
     DisconnectStopped, HandlerDropped
<1>2. CASE LoopStep \/ LoopConnectFails \/ LoopConnected
  BY <1>2 DEF LoopStep, LoopCheck, LoopStore, LoopStreamEnds, LoopCancelled, LoopGraceful,
     LoopGracefulTimeout, LoopJoinReader, LoopJoinWriter, LoopClear, LoopCleanup, LoopClosed,
     LoopPause, LoopConnectFails, LoopConnected, LoopOnly
<1>3. CASE ReadReady \/ ReadNotify \/ ReadDisconnect \/ ReadEvent \/ ReadEnds \/ SessionTimesOut
           \/ WriteMessage \/ WriteEnds
  BY <1>3 DEF ReadReady, ReadNotify, ReadDisconnect, ReadEvent, ReadEnds, SessionTimesOut,
     WriteMessage, WriteEnds
<1>4. ASSUME NEW e \in Emitters, Emit(e) \/ EmitSend(e) PROVE SenderTypeOK'
  BY <1>4 DEF Emit, EmitSend, EmitOnly
<1>5. CASE SenderStep
  <2>1. ASSUME NEW from, NEW ready \in SenderPC, NEW otherwise \in SenderPC,
               SenderTry(from, ready, otherwise)
        PROVE  SenderTypeOK'
    BY <2>1 DEF SenderTry, SessionTypeOK
  <2>2. ASSUME NEW from, NEW otherwise \in SenderPC, SenderSend(from, otherwise)
        PROVE  SenderTypeOK'
    <3>1. target' = 0 /\ rxLock' = rxLock /\ sender' \in SenderPC
      BY <2>2 DEF SenderSend
    <3>2. notified' \in BOOLEAN
      BY ONLY <2>2, SenderTypeOK, Zenon DEF SenderSend, SenderTypeOK
    <3> QED  BY <3>1, <3>2
  <2> QED
    BY <1>5, <2>1, <2>2 DEF SenderStep, SenderLock, SenderRecv, SenderRegister, SenderWoken
<1>6. CASE SenderStops \/ UNCHANGED vars
  <2>1. CASE SenderStops
    <3>1. target' = 0 /\ rxLock' \in {rxLock, "nobody"} /\ sender' = "none"
      BY <2>1 DEF SenderStops
    <3>2. notified' \in BOOLEAN
      BY ONLY <2>1, Zenon DEF SenderStops
    <3> QED  BY <3>1, <3>2
  <2>2. CASE UNCHANGED vars
    BY <2>2 DEF vars
  <2> QED  BY <1>6, <2>1, <2>2
<1> QED  BY <1>1, <1>2, <1>3, <1>4, <1>5, <1>6 DEF Next, Ops

\* Every variable keeps its type, and neither the event queue nor a session's
\* channel holds more than its capacity, whatever the tasks interleave.
THEOREM TypeCorrect == Spec => []TypeOK
<1>1. Init => TypeOK
  <2> SUFFICES ASSUME Init PROVE TypeOK
    OBVIOUS
  <2>1. OpTypeOK
    BY DEF Init, OpTypeOK, OpPC, LoopPC
  <2>2. SessionTypeOK
    BY BoundsAssumption DEF Init, SessionTypeOK
  <2>3. QueueTypeOK
    <3>1. Len(<<>>) = 0 /\ <<>> \in Seq(Events) /\ <<>> \in Seq(Events \cup {CLOSE})
      OBVIOUS
    <3> QED
      BY <3>1, SizesAssumption, BoundsAssumption DEF Init, QueueTypeOK, SenderHolds
  <2>4. SenderTypeOK
    <3>1. notified \in BOOLEAN
      BY Zenon DEF Init
    <3> QED  BY <3>1, BoundsAssumption DEF Init, SenderTypeOK, SenderPC
  <2> QED  BY <2>1, <2>2, <2>3, <2>4 DEF TypeOK
<1>2. TypeOK /\ [Next]_vars => TypeOK'
  BY OpTypeStep, SessionTypeStep, QueueTypeStep, SenderTypeStep DEF TypeOK
<1> QED  BY <1>1, <1>2, PTL DEF Spec

(***************************************************************************)
(* operate_lock.                                                           *)
(***************************************************************************)
\* Steps of the other tasks touch neither the calls nor the lock and status.
LEMMA OthersLeaveOps ==
  ASSUME \/ LoopStep \/ LoopConnectFails \/ LoopConnected
         \/ ReadReady \/ ReadEnds
         \/ SessionTimesOut \/ WriteMessage \/ WriteEnds
         \/ \E e \in Emitters : Emit(e) \/ EmitSend(e)
         \/ SenderStep \/ SenderStops \/ UNCHANGED vars
  PROVE  UNCHANGED <<status, lock, op, cancelled>>
  BY DEF LoopStep, LoopCheck, LoopStore, LoopStreamEnds, LoopCancelled, LoopGraceful,
     LoopGracefulTimeout, LoopJoinReader, LoopJoinWriter, LoopClear, LoopCleanup, LoopClosed,
     LoopPause, LoopConnectFails, LoopConnected, LoopOnly, ReadReady, ReadEnds,
     SessionTimesOut, WriteMessage, WriteEnds, Emit, EmitSend, EmitOnly, SenderStep,
     SenderLock, SenderRecv, SenderTry, SenderSend, SenderRegister, SenderWoken, SenderStops,
     SenderOnly, vars

\* A call that is past operate_lock keeps holding it until it returns, panics
\* or is dropped.
LEMMA LockStep == OpTypeOK /\ LockInv /\ [Next]_vars => LockInv'
<1> SUFFICES ASSUME OpTypeOK, LockInv, [Next]_vars PROVE LockInv'
  OBVIOUS
<1> USE DEF LockInv, OpTypeOK, Critical
<1>1. ASSUME NEW c \in Callers, Connect(c) \/ Disconnect(c) PROVE LockInv'
  BY <1>1 DEF Connect, Disconnect, Goto, Ops
<1>2. CASE ReadNotify \/ ReadDisconnect \/ ReadEvent
  BY <1>2 DEF ReadNotify, ReadDisconnect, ReadEvent, SpawnHandler, Goto
<1>3. ASSUME NEW c \in Ops, OpStep(c) \/ HandlerDropped(c) PROVE LockInv'
  <2>1. CASE TakeOperateLock(c)
    BY <2>1, CallersAssumption DEF TakeOperateLock, Goto, Ops
  <2>2. CASE ConnectStatus(c)
    BY <2>2, CallersAssumption DEF ConnectStatus, Goto, OpPC
  <2>3. CASE DisconnectStatus(c)
    BY <2>3, CallersAssumption DEF DisconnectStatus, Goto, OpPC
  <2>4. CASE HandlerDropped(c)
    BY <2>4 DEF HandlerDropped, Goto, OpPC
  <2>5. CASE ConnectToken(c) \/ ConnectSpawnLoop(c) \/ ConnectSpawnSender(c)
    BY <2>5 DEF ConnectToken, ConnectSpawnLoop, ConnectSpawnSender, Goto, OpPC
  <2>6. CASE \/ DisconnectAbortSender(c) \/ DisconnectCancel(c) \/ DisconnectLockRx(c)
             \/ DisconnectDrain(c) \/ DisconnectAwaitLoop(c) \/ DisconnectStopped(c)
    BY <2>6 DEF DisconnectAbortSender, DisconnectCancel, DisconnectLockRx, DisconnectDrain,
       DisconnectAwaitLoop, DisconnectStopped, Goto, OpPC
  <2> QED  BY <1>3, <2>1, <2>2, <2>3, <2>4, <2>5, <2>6 DEF OpStep
<1>4. CASE UNCHANGED <<status, lock, op, cancelled>>
  BY <1>4
<1> QED  BY <1>1, <1>2, <1>3, <1>4, OthersLeaveOps DEF Next

\* Once a call has panicked the status stays Stopping; until then the lock
\* keeps every other call away from a disconnect() under way.
LEMMA AbandonedStep ==
  OpTypeOK /\ LockInv /\ PanicMeansAbandoned /\ [Next]_vars => PanicMeansAbandoned'
<1> SUFFICES ASSUME OpTypeOK, LockInv, PanicMeansAbandoned, [Next]_vars
             PROVE  PanicMeansAbandoned'
  OBVIOUS
<1> USE DEF PanicMeansAbandoned, NeverUnreachable, OpTypeOK, Stopping
<1>1. ASSUME NEW c \in Callers, Connect(c) \/ Disconnect(c) PROVE PanicMeansAbandoned'
  BY <1>1 DEF Connect, Disconnect, Goto, Ops
<1>2. CASE ReadNotify \/ ReadDisconnect \/ ReadEvent
  BY <1>2 DEF ReadNotify, ReadDisconnect, ReadEvent, SpawnHandler, Goto
<1>3. ASSUME NEW c \in Ops, OpStep(c) PROVE PanicMeansAbandoned'
  \* Only c holds the lock, so no other call is in its critical section.
  <2>0. ASSUME op[c] \in {"connect_status", "disconnect_status"}
        PROVE  \A d \in Ops : op[d] \notin Stopping
    BY <2>0 DEF LockInv, Critical, OpPC
  <2>1. CASE TakeOperateLock(c)
    BY <2>1 DEF TakeOperateLock, Goto
  <2>2. CASE ConnectStatus(c)
    BY <2>0, <2>2 DEF ConnectStatus, Goto
  <2>3. CASE DisconnectStatus(c)
    BY <2>0, <2>3 DEF DisconnectStatus, Goto
  <2>4. CASE ConnectToken(c) \/ ConnectSpawnLoop(c) \/ ConnectSpawnSender(c)
    BY <2>4 DEF ConnectToken, ConnectSpawnLoop, ConnectSpawnSender, Goto
  <2>5. CASE \/ DisconnectAbortSender(c) \/ DisconnectCancel(c) \/ DisconnectLockRx(c)
             \/ DisconnectDrain(c) \/ DisconnectAwaitLoop(c) \/ DisconnectStopped(c)
    BY <2>5 DEF DisconnectAbortSender, DisconnectCancel, DisconnectLockRx, DisconnectDrain,
       DisconnectAwaitLoop, DisconnectStopped, Goto
  <2> QED  BY <1>3, <2>1, <2>2, <2>3, <2>4, <2>5 DEF OpStep
<1>4. ASSUME NEW c \in Ops, HandlerDropped(c) PROVE PanicMeansAbandoned'
  BY <1>4 DEF HandlerDropped, Goto
<1>5. CASE UNCHANGED <<status, lock, op, cancelled>>
  BY <1>5
<1> QED  BY <1>1, <1>2, <1>3, <1>4, <1>5, OthersLeaveOps DEF Next

\* Whoever the callers are, event handlers included, a call meets
\* unreachable!() only after a disconnect() was dropped half done.
THEOREM PanicsOnlyWhenAbandoned == Spec => []PanicMeansAbandoned
<1>1. Init => LockInv /\ PanicMeansAbandoned
  BY DEF Init, LockInv, PanicMeansAbandoned, NeverUnreachable, Critical
<1>2. OpTypeOK /\ LockInv /\ PanicMeansAbandoned /\ [Next]_vars
        => LockInv' /\ PanicMeansAbandoned'
  BY LockStep, AbandonedStep
<1>3. TypeOK => OpTypeOK
  BY DEF TypeOK
<1> QED  BY <1>1, <1>2, <1>3, TypeCorrect, PTL DEF Spec

(***************************************************************************)
(* One live session.                                                       *)
(***************************************************************************)
\* The loop is gone whenever connect() starts one.
LEMMA LoopStarts == OpTypeOK /\ LockInv /\ LoopInv /\ [Next]_vars => LoopInv'
<1> SUFFICES ASSUME OpTypeOK, LockInv, LoopInv, [Next]_vars PROVE LoopInv'
  OBVIOUS
<1> USE DEF LoopInv, OpTypeOK, Starting
<1>1. ASSUME NEW c \in Callers, Connect(c) \/ Disconnect(c) PROVE LoopInv'
  BY <1>1 DEF Connect, Disconnect, Goto, Ops
<1>2. CASE ReadNotify \/ ReadDisconnect \/ ReadEvent
  BY <1>2 DEF ReadNotify, ReadDisconnect, ReadEvent, SpawnHandler, Goto, StreamOnly
<1>3. ASSUME NEW c \in Ops, OpStep(c) \/ HandlerDropped(c) PROVE LoopInv'
  <2>0. ASSUME op[c] \in Critical, NEW d \in Ops, op[d] \in Critical PROVE d = c
    BY <2>0 DEF LockInv
  <2>1. CASE TakeOperateLock(c) \/ HandlerDropped(c)
    BY <2>1 DEF TakeOperateLock, HandlerDropped, Goto
  <2>2. CASE ConnectStatus(c)
    BY <2>0, <2>2 DEF ConnectStatus, Goto, Critical, OpPC
  <2>3. CASE DisconnectStatus(c)
    BY <2>0, <2>3 DEF DisconnectStatus, Goto, Critical, OpPC
  <2>4. CASE ConnectToken(c) \/ ConnectSpawnLoop(c) \/ ConnectSpawnSender(c)
    BY <2>0, <2>4 DEF ConnectToken, ConnectSpawnLoop, ConnectSpawnSender, Goto, Critical, OpPC
  <2>5. CASE \/ DisconnectAbortSender(c) \/ DisconnectCancel(c) \/ DisconnectLockRx(c)
             \/ DisconnectDrain(c)
    BY <2>5 DEF DisconnectAbortSender, DisconnectCancel, DisconnectLockRx, DisconnectDrain,
       Goto
  <2>6. CASE DisconnectAwaitLoop(c) \/ DisconnectStopped(c)
    BY <2>0, <2>6 DEF DisconnectAwaitLoop, DisconnectStopped, Goto, Critical, OpPC
  <2> QED  BY <1>3, <2>1, <2>2, <2>3, <2>4, <2>5, <2>6 DEF OpStep
<1>4. ASSUME UNCHANGED <<status, lock, op, cancelled>>, loop = "none" => loop' = "none"
      PROVE  LoopInv'
  BY <1>4
<1>5. ASSUME \/ LoopStep \/ LoopConnectFails \/ LoopConnected
             \/ ReadReady \/ ReadEnds
             \/ SessionTimesOut \/ WriteMessage \/ WriteEnds
             \/ \E e \in Emitters : Emit(e) \/ EmitSend(e)
             \/ SenderStep \/ SenderStops \/ UNCHANGED vars
      PROVE  loop = "none" => loop' = "none"
  BY <1>5 DEF LoopStep, LoopCheck, LoopStore, LoopStreamEnds, LoopCancelled, LoopGraceful,
     LoopGracefulTimeout, LoopJoinReader, LoopJoinWriter, LoopClear, LoopCleanup, LoopClosed,
     LoopPause, LoopConnectFails, LoopConnected, ReadReady, ReadEnds,
     SessionTimesOut, WriteMessage, WriteEnds, StreamOnly, Emit, EmitSend, EmitOnly,
     SenderStep, SenderLock, SenderRecv, SenderTry, SenderSend, SenderRegister, SenderWoken,
     SenderStops, SenderOnly, vars
<1> QED  BY <1>1, <1>2, <1>3, <1>4, <1>5, OthersLeaveOps DEF Next

\* Only the newest session is live, and only inside run_connection().
LEMMA LifeStep ==
  OpTypeOK /\ SessionTypeOK /\ LoopInv /\ LifeInv /\ [Next]_vars => LifeInv'
<1> SUFFICES ASSUME OpTypeOK, SessionTypeOK, LoopInv, LifeInv, [Next]_vars PROVE LifeInv'
  OBVIOUS
<1> USE DEF LifeInv, Live
<1>1. ASSUME NEW c \in Ops,
             (c \in Callers /\ (Connect(c) \/ Disconnect(c))) \/ OpStep(c) \/ HandlerDropped(c)
      PROVE  LifeInv'
  <2>1. CASE ConnectSpawnLoop(c)
    BY <2>1 DEF ConnectSpawnLoop, OpOnly, CallOnly, Goto, LoopInv
  <2>2. CASE DisconnectAwaitLoop(c)
    BY <2>2 DEF DisconnectAwaitLoop, OpOnly, CallOnly
  <2> QED
    BY <1>1, <2>1, <2>2 DEF Connect, Disconnect, OpStep, TakeOperateLock, ConnectStatus,
       ConnectToken, ConnectSpawnSender, DisconnectStatus, DisconnectAbortSender,
       DisconnectCancel, DisconnectLockRx, DisconnectDrain, DisconnectStopped,
       HandlerDropped, OpOnly, CallOnly
<1>2. ASSUME CloseSession, UNCHANGED created
      PROVE  \A s \in Sessions : life'[s] \notin Live
  BY <1>2 DEF CloseSession, SessionTypeOK
<1>3. CASE LoopStep
  <2>1. CASE LoopCancelled
    BY <1>2, <2>1 DEF LoopCancelled
  <2>2. CASE LoopCleanup \/ LoopClosed
    BY <2>2 DEF LoopCleanup, LoopClosed, SessionTypeOK
  <2> QED
    BY <1>3, <2>1, <2>2 DEF LoopStep, LoopCheck, LoopStore, LoopStreamEnds, LoopGraceful,
       LoopGracefulTimeout, LoopJoinReader, LoopJoinWriter, LoopClear, LoopPause
<1>4. CASE LoopConnectFails
  BY <1>4 DEF LoopConnectFails
<1>5. CASE LoopConnected
  BY <1>5 DEF LoopConnected, SessionTypeOK
<1>6. CASE ReadReady
  BY <1>6 DEF ReadReady, StreamOnly, SessionTypeOK
<1>7. CASE SessionTimesOut
  BY <1>2, <1>7 DEF SessionTimesOut, StreamOnly
<1>8. CASE ReadNotify \/ ReadDisconnect \/ ReadEvent \/ ReadEnds \/ WriteMessage \/ WriteEnds
  BY <1>8 DEF ReadNotify, ReadDisconnect, ReadEvent, ReadEnds, WriteMessage, WriteEnds, StreamOnly
<1>9. ASSUME NEW e \in Emitters, Emit(e) \/ EmitSend(e) PROVE LifeInv'
  BY <1>9 DEF Emit, EmitSend, EmitOnly
<1>10. CASE SenderStep \/ SenderStops \/ UNCHANGED vars
  BY <1>10 DEF SenderStep, SenderLock, SenderRecv, SenderTry, SenderSend, SenderRegister,
     SenderWoken, SenderStops, SenderOnly, vars
<1> QED
  BY <1>1, <1>3, <1>4, <1>5, <1>6, <1>7, <1>8, <1>9, <1>10 DEF Next, Ops

\* At most one session is live at any time, across reconnects and any number
\* of concurrent connect() and disconnect() calls, event handlers included.
THEOREM SessionsNeverOverlap == Spec => []OneLiveSession
<1>1. Init => LockInv /\ LoopInv /\ LifeInv
  BY DEF Init, LockInv, LoopInv, LifeInv, Critical, Starting, Live
<1>2. TypeOK /\ LockInv /\ LoopInv /\ LifeInv /\ [Next]_vars
        => LockInv' /\ LoopInv' /\ LifeInv'
  BY LockStep, LoopStarts, LifeStep DEF TypeOK
<1>3. LifeInv => OneLiveSession
  BY DEF LifeInv, OneLiveSession
<1> QED  BY <1>1, <1>2, <1>3, TypeCorrect, PTL DEF Spec

(***************************************************************************)
(* What disconnect() waits for.                                            *)
(***************************************************************************)
\* Steps of the loop, of a session and of emit() touch neither the receiver's
\* lock nor the sender.
LEMMA OthersLeaveReceiver ==
  ASSUME \/ LoopStep \/ LoopConnectFails \/ LoopConnected
         \/ ReadReady \/ ReadEnds
         \/ SessionTimesOut \/ WriteMessage \/ WriteEnds
         \/ \E e \in Emitters : Emit(e) \/ EmitSend(e)
         \/ UNCHANGED vars
  PROVE  UNCHANGED <<rxLock, sender>>
  BY DEF LoopStep, LoopCheck, LoopStore, LoopStreamEnds, LoopCancelled, LoopGraceful,
     LoopGracefulTimeout, LoopJoinReader, LoopJoinWriter, LoopClear, LoopCleanup, LoopClosed,
     LoopPause, LoopConnectFails, LoopConnected, LoopOnly, ReadReady, ReadEnds,
     SessionTimesOut, WriteMessage, WriteEnds, Emit, EmitSend, EmitOnly, vars

\* Only connect() starts a loop and only disconnect() takes it away.
LEMMA OthersLeaveLoop ==
  ASSUME OpTypeOK,
         \/ LoopStep \/ LoopConnectFails \/ LoopConnected
         \/ ReadReady \/ ReadEnds
         \/ SessionTimesOut \/ WriteMessage \/ WriteEnds
         \/ \E e \in Emitters : Emit(e) \/ EmitSend(e)
         \/ SenderStep \/ SenderStops \/ UNCHANGED vars
  PROVE  loop' = "none" <=> loop = "none"
  BY DEF OpTypeOK, LoopPC, LoopStep, LoopCheck, LoopStore, LoopStreamEnds, LoopCancelled,
     LoopGraceful, LoopGracefulTimeout, LoopJoinReader, LoopJoinWriter, LoopClear, LoopCleanup,
     LoopClosed, LoopPause, LoopConnectFails, LoopConnected, ReadReady, ReadEnds,
     SessionTimesOut, WriteMessage, WriteEnds, StreamOnly, Emit, EmitSend, EmitOnly,
     SenderStep, SenderLock, SenderRecv, SenderTry, SenderSend, SenderRegister, SenderWoken,
     SenderStops, SenderOnly, vars

\* The receiver passes between the sender and the disconnect() that aborted
\* it; a new sender starts only when the old one is gone.
LEMMA ReceiverStep ==
  OpTypeOK /\ LockInv /\ LoopInv /\ ReceiverInv /\ [Next]_vars => ReceiverInv'
<1> SUFFICES ASSUME OpTypeOK, LockInv, LoopInv, ReceiverInv, [Next]_vars PROVE ReceiverInv'
  OBVIOUS
<1> USE DEF ReceiverInv, OpTypeOK, Starting, Draining
<1>0. "nobody" \notin Ops /\ "sender" \notin Ops
  BY CallersAssumption DEF Ops
<1>1. ASSUME NEW c \in Callers, Connect(c) \/ Disconnect(c) PROVE ReceiverInv'
  BY <1>1 DEF Connect, Disconnect, Goto, Ops
<1>2. CASE ReadNotify \/ ReadDisconnect \/ ReadEvent
  BY <1>2 DEF ReadNotify, ReadDisconnect, ReadEvent, SpawnHandler, Goto
<1>3. ASSUME NEW c \in Ops, OpStep(c) \/ HandlerDropped(c) PROVE ReceiverInv'
  <2>0. ASSUME op[c] \in Critical, NEW d \in Ops, op[d] \in Critical PROVE d = c
    BY <2>0 DEF LockInv
  <2>1. CASE TakeOperateLock(c)
    BY <2>1 DEF TakeOperateLock, Goto
  <2>2. CASE HandlerDropped(c)
    BY <1>0, <2>2 DEF HandlerDropped, Goto
  <2>3. CASE ConnectStatus(c) \/ DisconnectStatus(c)
    BY <2>3 DEF ConnectStatus, DisconnectStatus, Goto
  <2>4. CASE ConnectToken(c) \/ ConnectSpawnLoop(c)
    BY <2>4 DEF ConnectToken, ConnectSpawnLoop, Goto
  <2>5. CASE ConnectSpawnSender(c)
    BY <2>0, <2>5 DEF ConnectSpawnSender, Goto, Critical, OpPC, LoopInv
  <2>6. CASE DisconnectAbortSender(c) \/ DisconnectCancel(c) \/ DisconnectDrain(c)
             \/ DisconnectAwaitLoop(c)
    BY <2>6 DEF DisconnectAbortSender, DisconnectCancel, DisconnectDrain, DisconnectAwaitLoop,
       Goto
  <2>7. CASE DisconnectLockRx(c)
    BY <1>0, <2>7 DEF DisconnectLockRx, Goto
  <2>8. CASE DisconnectStopped(c)
    BY <1>0, <2>8 DEF DisconnectStopped, Goto
  <2> QED  BY <1>3, <2>1, <2>2, <2>3, <2>4, <2>5, <2>6, <2>7, <2>8 DEF OpStep
<1>4. CASE SenderStep
  <2>1. UNCHANGED <<status, op>>
    BY <1>4, OthersLeaveOps
  <2>2. sender # "none"
    BY <1>4 DEF SenderStep, SenderLock, SenderRecv, SenderTry, SenderSend, SenderRegister,
       SenderWoken
  <2>3. rxLock' = rxLock \/ (rxLock = "nobody" /\ rxLock' = "sender")
    BY <1>4 DEF SenderStep, SenderLock, SenderRecv, SenderTry, SenderSend, SenderRegister,
       SenderWoken
  <2>4. sender' \notin {"none", "lock"}
    BY <1>4 DEF SenderStep, SenderLock, SenderRecv, SenderTry, SenderSend, SenderRegister,
       SenderWoken
  <2> QED  BY <1>0, <2>1, <2>2, <2>3, <2>4
<1>5. CASE SenderStops
  <2>1. UNCHANGED <<status, op>>
    BY <1>5, OthersLeaveOps
  <2> QED  BY <1>0, <1>5, <2>1 DEF SenderStops
<1>6. CASE UNCHANGED <<status, op, rxLock, sender>>
  BY <1>6
<1> QED
  BY <1>1, <1>2, <1>3, <1>4, <1>5, <1>6, OthersLeaveOps, OthersLeaveReceiver DEF Next

\* While the status is Running there is a loop, or a connect() about to start
\* it; from then until it has been awaited disconnect() has a loop to wait for.
LEMMA RunningStep ==
  OpTypeOK /\ LockInv /\ LoopInv /\ RunningInv /\ [Next]_vars => RunningInv'
<1> SUFFICES ASSUME OpTypeOK, LockInv, LoopInv, RunningInv, [Next]_vars PROVE RunningInv'
  OBVIOUS
<1> USE DEF RunningInv, OpTypeOK, Stopping, Draining
<1>1. ASSUME NEW c \in Callers, Connect(c) \/ Disconnect(c) PROVE RunningInv'
  BY <1>1 DEF Connect, Disconnect, Goto, Ops
<1>2. CASE ReadNotify \/ ReadDisconnect \/ ReadEvent
  BY <1>2 DEF ReadNotify, ReadDisconnect, ReadEvent, SpawnHandler, Goto, StreamOnly
<1>3. ASSUME NEW c \in Ops, OpStep(c) \/ HandlerDropped(c) PROVE RunningInv'
  <2>0. ASSUME op[c] \in Critical, NEW d \in Ops, op[d] \in Critical PROVE d = c
    BY <2>0 DEF LockInv
  <2>1. CASE TakeOperateLock(c) \/ HandlerDropped(c)
    BY <2>1 DEF TakeOperateLock, HandlerDropped, Goto
  <2>2. CASE ConnectStatus(c)
    BY <2>0, <2>2 DEF ConnectStatus, Goto, Critical, OpPC
  <2>3. CASE DisconnectStatus(c)
    BY <2>0, <2>3 DEF DisconnectStatus, Goto, Critical, OpPC
  <2>4. CASE ConnectToken(c) \/ ConnectSpawnLoop(c) \/ ConnectSpawnSender(c)
    BY <2>0, <2>4 DEF ConnectToken, ConnectSpawnLoop, ConnectSpawnSender, Goto, Critical, OpPC
  <2>5. CASE \/ DisconnectAbortSender(c) \/ DisconnectCancel(c) \/ DisconnectLockRx(c)
             \/ DisconnectDrain(c)
    BY <2>5 DEF DisconnectAbortSender, DisconnectCancel, DisconnectLockRx, DisconnectDrain,
       Goto
  <2>6. CASE DisconnectAwaitLoop(c) \/ DisconnectStopped(c)
    BY <2>0, <2>6 DEF DisconnectAwaitLoop, DisconnectStopped, Goto, Critical, OpPC
  <2> QED  BY <1>3, <2>1, <2>2, <2>3, <2>4, <2>5, <2>6 DEF OpStep
<1>4. ASSUME UNCHANGED <<status, lock, op, cancelled>>, loop' = "none" <=> loop = "none"
      PROVE  RunningInv'
  BY <1>4
<1> QED  BY <1>1, <1>2, <1>3, <1>4, OthersLeaveOps, OthersLeaveLoop DEF Next

\* disconnect() never waits for what nobody ends: the receiver is free or
\* with the sender it aborted, and the loop it awaits exists and has been told
\* to stop, whatever calls, handlers and sessions interleave.  That the sender
\* and the loop then do end is DisconnectReturns.
THEOREM DisconnectNeverStuck == Spec => []DisconnectCanFinish
<1>1. Init => LockInv /\ LoopInv /\ ReceiverInv /\ RunningInv
  <2> SUFFICES ASSUME Init PROVE LockInv /\ LoopInv /\ ReceiverInv /\ RunningInv
    OBVIOUS
  <2>1. LockInv /\ LoopInv
    BY DEF Init, LockInv, LoopInv, Critical, Starting
  <2>2. ReceiverInv
    BY CallersAssumption DEF Init, ReceiverInv, Starting, Draining, Ops
  <2>3. RunningInv
    BY DEF Init, RunningInv, Stopping, Draining
  <2> QED  BY <2>1, <2>2, <2>3
<1>2. TypeOK /\ LockInv /\ LoopInv /\ ReceiverInv /\ RunningInv /\ [Next]_vars
        => LockInv' /\ LoopInv' /\ ReceiverInv' /\ RunningInv'
  BY LockStep, LoopStarts, ReceiverStep, RunningStep DEF TypeOK
<1>3. TypeOK /\ LockInv /\ ReceiverInv /\ RunningInv => DisconnectCanFinish
  <2> SUFFICES ASSUME OpTypeOK, SenderTypeOK, LockInv, ReceiverInv, RunningInv, NEW c \in Ops
               PROVE  /\ op[c] = "lock_rx" =>
                           /\ rxLock \in {"nobody", "sender"}
                           /\ rxLock = "sender" => sender # "none"
                           /\ status = "Stopping" /\ \A d \in Ops : op[d] # "abort_sender"
                      /\ op[c] = "await_loop" =>
                           /\ loop # "none" /\ cancelled /\ status = "Stopping"
                           /\ rxLock = c /\ sender = "none"
    BY DEF TypeOK, DisconnectCanFinish
  <2>1. ASSUME op[c] = "lock_rx", NEW d \in Ops, op[d] \in Critical PROVE d = c
    BY <2>1 DEF LockInv, Critical, OpPC
  <2>2. ASSUME op[c] = "lock_rx", rxLock \in Ops PROVE FALSE
    BY <2>1, <2>2 DEF ReceiverInv, Draining, Critical, OpPC
  <2>3. ASSUME op[c] = "lock_rx", NEW d \in Ops PROVE op[d] # "abort_sender"
    BY <2>1, <2>3 DEF Critical, OpPC
  <2>4. CASE op[c] = "lock_rx"
    BY <2>2, <2>3, <2>4 DEF ReceiverInv, RunningInv, SenderTypeOK, Stopping
  <2>5. CASE op[c] = "await_loop"
    BY <2>5 DEF ReceiverInv, RunningInv, Draining, Stopping
  <2> QED  BY <2>4, <2>5
<1> QED  BY <1>1, <1>2, <1>3, TypeCorrect, PTL DEF Spec

(***************************************************************************)
(* The order of events.                                                    *)
(*                                                                         *)
(* An event moves from the queue to the sender's hands, to the channel of  *)
(* the current session and to its socket.  It may be lost on the way, but  *)
(* at every moment what is further along is older.                         *)
(***************************************************************************)
\* The events of a sequence are in the order they were emitted.
Increasing(q) ==
  \A i, j \in 1..Len(q) : i < j /\ q[i] # CLOSE /\ q[j] # CLOSE => q[i] < q[j]

\* Every event of q is older, or newer, than n; every one is older than all of r.
Older(q, n) == \A i \in 1..Len(q) : q[i] # CLOSE => q[i] < n
Newer(q, n) == \A i \in 1..Len(q) : q[i] # CLOSE => n < q[i]
Below(q, r) == \A i \in 1..Len(r) : r[i] # CLOSE => Older(q, r[i])

\* Every event of q is older than all a session has yet to be given.
Ahead(q) == Below(q, queue) /\ Older(q, emitted + 1) /\ (event # 0 => Older(q, event))

QueueOrder ==
  /\ Increasing(queue) /\ Older(queue, emitted + 1)
  /\ event # 0 => event < emitted + 1 /\ Newer(queue, event)

SessionOrder ==
  /\ Increasing(outbox) /\ Ahead(outbox)
  /\ \A s \in Sessions :
       /\ Increasing(delivered[s]) /\ Ahead(delivered[s]) /\ Below(delivered[s], outbox)
       /\ s > created => delivered[s] = <<>>
  /\ \A s, t \in Sessions : s < t => Below(delivered[s], delivered[t])

OrderInv == QueueOrder /\ SessionOrder

\* The elements of a sequence after a send and after a receive.
LEMMA AppendElements ==
  ASSUME NEW q \in Seq(Nat), NEW x \in Nat
  PROVE  /\ Append(q, x) \in Seq(Nat) /\ Len(q) \in Nat
         /\ Len(Append(q, x)) = Len(q) + 1 /\ Append(q, x)[Len(q) + 1] = x
         /\ \A i \in 1..Len(q) : Append(q, x)[i] = q[i] /\ q[i] \in Nat
OBVIOUS

LEMMA TailElements ==
  ASSUME NEW q \in Seq(Nat), q # <<>>
  PROVE  /\ Tail(q) \in Seq(Nat) /\ Head(q) = q[1] /\ Len(q) \in Nat \ {0}
         /\ Len(Tail(q)) = Len(q) - 1
         /\ \A i \in 1..Len(Tail(q)) : Tail(q)[i] = q[i + 1] /\ i + 1 \in 1..Len(q)
         /\ \A i \in 1..Len(q) : q[i] \in Nat
OBVIOUS

LEMMA EmptyOrder ==
  ASSUME NEW q, NEW n
  PROVE  /\ Increasing(<<>>) /\ Older(<<>>, n) /\ Newer(<<>>, n)
         /\ Below(<<>>, q) /\ Below(q, <<>>)
BY DEF Increasing, Older, Newer, Below

LEMMA AppendOrder ==
  ASSUME NEW q \in Seq(Nat), NEW x \in Nat
  PROVE  /\ Increasing(q) /\ (x # CLOSE => Older(q, x)) => Increasing(Append(q, x))
         /\ \A n \in Nat : Older(q, n) /\ (x # CLOSE => x < n) => Older(Append(q, x), n)
         /\ \A n \in Nat : Newer(q, n) /\ (x # CLOSE => n < x) => Newer(Append(q, x), n)
         /\ \A r \in Seq(Nat) : Below(q, r) /\ (x # CLOSE => Newer(r, x)) => Below(Append(q, x), r)
         /\ \A r : Below(r, q) /\ (x # CLOSE => Older(r, x)) => Below(r, Append(q, x))
<1> DEFINE a == Append(q, x)
<1>0. /\ a \in Seq(Nat) /\ Len(q) \in Nat
      /\ Len(a) = Len(q) + 1 /\ a[Len(q) + 1] = x
      /\ \A i \in 1..Len(q) : a[i] = q[i] /\ q[i] \in Nat
  BY AppendElements
<1> HIDE DEF a
<1>i. \A i \in 1..Len(a) : (i \in 1..Len(q) /\ a[i] = q[i]) \/ (i = Len(q) + 1 /\ a[i] = x)
  BY <1>0
<1>1. ASSUME Increasing(q), x # CLOSE => Older(q, x) PROVE Increasing(a)
  <2> SUFFICES ASSUME NEW i \in 1..Len(a), NEW j \in 1..Len(a), i < j, a[i] # CLOSE, a[j] # CLOSE
               PROVE  a[i] < a[j]
    BY DEF Increasing
  <2>1. i \in 1..Len(q)
    BY <1>0
  <2>2. CASE j \in 1..Len(q)
    BY <1>0, <1>1, <2>1, <2>2 DEF Increasing
  <2>3. CASE j = Len(q) + 1
    BY <1>0, <1>1, <2>1, <2>3 DEF Older
  <2> QED  BY <1>i, <2>2, <2>3
<1>2. ASSUME NEW n \in Nat, Older(q, n), x # CLOSE => x < n PROVE Older(a, n)
  BY <1>i, <1>2 DEF Older
<1>3. ASSUME NEW n \in Nat, Newer(q, n), x # CLOSE => n < x PROVE Newer(a, n)
  BY <1>i, <1>3 DEF Newer
<1>4. ASSUME NEW r \in Seq(Nat), Below(q, r), x # CLOSE => Newer(r, x) PROVE Below(a, r)
  <2> SUFFICES ASSUME NEW i \in 1..Len(r), r[i] # CLOSE PROVE Older(a, r[i])
    BY DEF Below
  <2>1. Older(q, r[i]) /\ (x # CLOSE => x < r[i]) /\ r[i] \in Nat
    BY <1>4 DEF Below, Newer
  <2> QED  BY <1>2, <2>1
<1>5. ASSUME NEW r, Below(r, q), x # CLOSE => Older(r, x) PROVE Below(r, a)
  BY <1>i, <1>5 DEF Below
<1> QED  BY <1>1, <1>2, <1>3, <1>4, <1>5 DEF a

LEMMA TailOrder ==
  ASSUME NEW q \in Seq(Nat), q # <<>>
  PROVE  /\ Increasing(q) => Increasing(Tail(q))
         /\ Increasing(q) /\ Head(q) # CLOSE => Newer(Tail(q), Head(q))
         /\ \A n \in Nat : Older(q, n) => /\ Older(Tail(q), n)
                                          /\ Head(q) # CLOSE => Head(q) < n
         /\ \A r : Below(q, r) => Below(Tail(q), r)
         /\ \A r \in Seq(Nat) : Below(q, r) /\ Head(q) # CLOSE => Newer(r, Head(q))
         /\ \A r : Below(r, q) => /\ Below(r, Tail(q))
                                  /\ Head(q) # CLOSE => Older(r, Head(q))
<1> DEFINE t == Tail(q)
           h == Head(q)
<1>0. /\ t \in Seq(Nat) /\ h = q[1] /\ Len(q) \in Nat \ {0}
      /\ Len(t) = Len(q) - 1
      /\ \A i \in 1..Len(t) : t[i] = q[i + 1] /\ i + 1 \in 1..Len(q)
      /\ \A i \in 1..Len(q) : q[i] \in Nat
  BY TailElements
<1> HIDE DEF t, h
<1>1. ASSUME Increasing(q) PROVE Increasing(t)
  <2> SUFFICES ASSUME NEW i \in 1..Len(t), NEW j \in 1..Len(t), i < j, t[i] # CLOSE, t[j] # CLOSE
               PROVE  t[i] < t[j]
    BY DEF Increasing
  <2>1. i + 1 < j + 1
    BY <1>0
  <2> QED  BY <1>0, <1>1, <2>1 DEF Increasing
<1>2. ASSUME Increasing(q), h # CLOSE PROVE Newer(t, h)
  <2> SUFFICES ASSUME NEW i \in 1..Len(t), t[i] # CLOSE PROVE h < t[i]
    BY DEF Newer
  <2>1. 1 \in 1..Len(q) /\ i + 1 \in 1..Len(q) /\ 1 < i + 1
    BY <1>0
  <2> QED  BY <1>0, <1>2, <2>1 DEF Increasing
<1>h. 1 \in 1..Len(q)
  BY <1>0
<1>3. ASSUME NEW n, Older(q, n) PROVE Older(t, n) /\ (h # CLOSE => h < n)
  BY <1>0, <1>h, <1>3 DEF Older
<1>4. ASSUME NEW r, Below(q, r) PROVE Below(t, r)
  BY <1>3, <1>4 DEF Below
<1>5. ASSUME NEW r, Below(q, r), h # CLOSE PROVE Newer(r, h)
  BY <1>3, <1>5 DEF Below, Newer
<1>6. ASSUME NEW r, Below(r, q) PROVE Below(r, t) /\ (h # CLOSE => Older(r, h))
  BY <1>0, <1>h, <1>6 DEF Below
<1> QED  BY <1>1, <1>2, <1>3, <1>4, <1>5, <1>6 DEF t, h

\* Two runs of events, one behind the other.
LEMMA ConcatOrder ==
  ASSUME NEW q \in Seq(Nat), NEW r \in Seq(Nat)
  PROVE  /\ Increasing(q) /\ Increasing(r) /\ Below(q, r) => Increasing(q \o r)
         /\ DOMAIN (q \o r) = 1..Len(q \o r)
         /\ \A p : Below(p, q) /\ Below(p, r) => Below(p, q \o r)
<1> DEFINE c == q \o r
<1>1. /\ Len(q) \in Nat /\ Len(r) \in Nat /\ Len(c) = Len(q) + Len(r)
      /\ DOMAIN c = 1..Len(c)
      /\ \A i \in 1..Len(c) : c[i] = IF i <= Len(q) THEN q[i] ELSE r[i - Len(q)]
  OBVIOUS
<1> HIDE DEF c
<1>2. \A i \in 1..Len(c) :
        \/ i \in 1..Len(q) /\ c[i] = q[i]
        \/ i > Len(q) /\ i - Len(q) \in 1..Len(r) /\ c[i] = r[i - Len(q)]
  BY <1>1
<1>3. ASSUME Increasing(q), Increasing(r), Below(q, r) PROVE Increasing(c)
  <2> SUFFICES ASSUME NEW i \in 1..Len(c), NEW j \in 1..Len(c), i < j, c[i] # CLOSE, c[j] # CLOSE
               PROVE  c[i] < c[j]
    BY DEF Increasing
  <2>1. CASE j \in 1..Len(q) /\ c[j] = q[j]
    <3>1. i \in 1..Len(q) /\ c[i] = q[i]
      BY <1>1, <1>2, <2>1
    <3> QED  BY <1>3, <2>1, <3>1 DEF Increasing
  <2>2. CASE i \in 1..Len(q) /\ c[i] = q[i] /\ j - Len(q) \in 1..Len(r) /\ c[j] = r[j - Len(q)]
    BY <1>3, <2>2 DEF Below, Older
  <2>3. CASE /\ i - Len(q) \in 1..Len(r) /\ c[i] = r[i - Len(q)]
             /\ j - Len(q) \in 1..Len(r) /\ c[j] = r[j - Len(q)]
    <3>1. i - Len(q) < j - Len(q)
      BY <1>1
    <3> QED  BY <1>3, <2>3, <3>1 DEF Increasing
  <2> QED  BY <1>2, <2>1, <2>2, <2>3
<1>4. ASSUME NEW p, Below(p, q), Below(p, r) PROVE Below(p, c)
  <2> SUFFICES ASSUME NEW i \in 1..Len(c), c[i] # CLOSE PROVE Older(p, c[i])
    BY DEF Below
  <2> QED  BY <1>2, <1>4 DEF Below
<1> QED  BY <1>1, <1>3, <1>4 DEF c

\* The messages are numbers, and only the channel holds Close frames.
LEMMA OrderTypes ==
  ASSUME QueueTypeOK
  PROVE  /\ emitted \in Nat /\ event \in Nat /\ CLOSE \in Nat
         /\ queue \in Seq(Nat) /\ outbox \in Seq(Nat)
         /\ \A s \in Sessions : delivered[s] \in Seq(Nat)
         /\ queue # <<>> => Head(queue) # CLOSE
         /\ event # CLOSE /\ (sender \in SenderHolds => event # 0)
<1>1. Events \subseteq Nat /\ CLOSE \in Nat /\ CLOSE \notin Events /\ CLOSE \notin 0..MaxEvents
  BY BoundsAssumption DEF Events, CLOSE
<1>2. Events \cup {CLOSE} \subseteq Nat
  BY <1>1
<1>3. /\ queue \in Seq(Events) /\ outbox \in Seq(Events \cup {CLOSE})
      /\ \A s \in Sessions : delivered[s] \in Seq(Events)
      /\ emitted \in 0..MaxEvents /\ event \in 0..MaxEvents
      /\ sender \in SenderHolds => event # 0
  BY DEF QueueTypeOK
<1>4. queue # <<>> => Head(queue) \in Events
  BY <1>3
<1>5. emitted \in Nat /\ event \in Nat
  BY <1>3, BoundsAssumption
<1>6. queue \in Seq(Nat) /\ outbox \in Seq(Nat) /\ \A s \in Sessions : delivered[s] \in Seq(Nat)
  BY <1>1, <1>2, <1>3, SeqMonotonic
<1> QED  BY <1>1, <1>3, <1>4, <1>5, <1>6

\* emit() puts a newer event behind the others.
LEMMA OrderEmit ==
  ASSUME QueueTypeOK, OrderInv, emitted' = emitted + 1, queue' = Append(queue, emitted + 1),
         UNCHANGED <<event, outbox, delivered, created>>
  PROVE  OrderInv'
<1>0. /\ emitted \in Nat /\ event \in Nat /\ queue \in Seq(Nat) /\ outbox \in Seq(Nat)
      /\ \A s \in Sessions : delivered[s] \in Seq(Nat)
  BY OrderTypes
<1>1. ASSUME NEW q \in Seq(Nat), Older(q, emitted + 1) PROVE Older(q, emitted + 2)
  <2>1. \A i \in 1..Len(q) : q[i] \in Nat
    OBVIOUS
  <2> QED  BY <1>0, <1>1, <2>1 DEF Older
<1>2. ASSUME NEW q \in Seq(Nat), Ahead(q) PROVE Ahead(q)'
  <2>1. Below(q, queue')
    BY <1>0, <1>2, AppendOrder DEF Ahead
  <2>2. Older(q, emitted' + 1)
    BY <1>0, <1>1, <1>2 DEF Ahead
  <2> QED  BY <1>2, <2>1, <2>2 DEF Ahead
<1>3. Increasing(queue)'
  BY <1>0, AppendOrder DEF OrderInv, QueueOrder
<1>4. Older(queue', emitted + 2)
  BY <1>0, <1>1, AppendOrder DEF OrderInv, QueueOrder
<1>5. event # 0 => event < emitted + 2 /\ Newer(queue', event)
  <2>1. event # 0 => event < emitted + 2
    BY <1>0 DEF OrderInv, QueueOrder
  <2> QED  BY <1>0, <2>1, AppendOrder DEF OrderInv, QueueOrder
<1>6. QueueOrder'
  BY <1>0, <1>3, <1>4, <1>5 DEF QueueOrder
<1>7. SessionOrder'
  BY <1>0, <1>2 DEF OrderInv, SessionOrder
<1> QED  BY <1>6, <1>7 DEF OrderInv

\* The queue loses its oldest event, to the sender or to disconnect().
LEMMA OrderReceive ==
  ASSUME QueueTypeOK, OrderInv, queue # <<>>, queue' = Tail(queue), event' \in {event, Head(queue)},
         UNCHANGED <<emitted, outbox, delivered, created>>
  PROVE  OrderInv'
<1>0. /\ emitted \in Nat /\ event \in Nat /\ queue \in Seq(Nat) /\ outbox \in Seq(Nat)
      /\ \A s \in Sessions : delivered[s] \in Seq(Nat)
      /\ Head(queue) # CLOSE
  BY OrderTypes
<1>1. ASSUME NEW q \in Seq(Nat), Ahead(q) PROVE Ahead(q)'
  BY <1>0, <1>1, TailOrder DEF Ahead
<1>2. QueueOrder'
  <2>1. emitted + 1 \in Nat
    BY <1>0
  <2>2. /\ Increasing(Tail(queue)) /\ Newer(Tail(queue), Head(queue))
        /\ Older(Tail(queue), emitted + 1) /\ Head(queue) < emitted + 1
    BY <1>0, <2>1, TailOrder DEF OrderInv, QueueOrder
  <2>3. ASSUME event # 0, event' = event PROVE Newer(Tail(queue), event)
    <3>1. Newer(queue, event)
      BY <2>3 DEF OrderInv, QueueOrder
    <3> QED  BY <1>0, <3>1, TailElements DEF Newer
  <2> QED  BY <2>2, <2>3 DEF OrderInv, QueueOrder
<1>3. SessionOrder'
  BY <1>0, <1>1 DEF OrderInv, SessionOrder
<1> QED  BY <1>2, <1>3 DEF OrderInv

\* The sender hands its event to the channel, or drops it.
LEMMA OrderHandOver ==
  ASSUME QueueTypeOK, OrderInv, event' = 0,
         \/ outbox' = outbox
         \/ event # 0 /\ outbox' = Append(outbox, event),
         UNCHANGED <<queue, emitted, delivered, created>>
  PROVE  OrderInv'
<1>0. /\ emitted + 1 \in Nat /\ event \in Nat /\ queue \in Seq(Nat) /\ outbox \in Seq(Nat)
      /\ \A s \in Sessions : delivered[s] \in Seq(Nat)
      /\ event # CLOSE
  BY OrderTypes
<1>1. ASSUME NEW q, Ahead(q) PROVE Ahead(q)'
  BY <1>1 DEF Ahead
<1>2. QueueOrder'
  BY DEF OrderInv, QueueOrder
<1>3. CASE outbox' = outbox
  BY <1>1, <1>2, <1>3 DEF OrderInv, SessionOrder
<1>4. CASE event # 0 /\ outbox' = Append(outbox, event)
  <2>1. Increasing(outbox') /\ Below(outbox', queue) /\ Older(outbox', emitted + 1)
    BY <1>0, <1>4, AppendOrder DEF OrderInv, QueueOrder, SessionOrder, Ahead
  <2>2. \A s \in Sessions : Below(delivered[s], outbox')
    BY <1>0, <1>4, AppendOrder DEF OrderInv, SessionOrder, Ahead
  <2>3. Ahead(outbox)'
    BY <2>1 DEF Ahead
  <2> QED  BY <1>1, <1>2, <2>1, <2>2, <2>3 DEF OrderInv, SessionOrder
<1> QED  BY <1>3, <1>4

\* A Close frame changes nothing, and neither does the loss of the channel.
LEMMA OrderChannel ==
  ASSUME QueueTypeOK, OrderInv, outbox' \in {outbox, Append(outbox, CLOSE), <<>>},
         created' \in Nat, created \in Nat, created <= created',
         UNCHANGED <<queue, emitted, event, delivered>>
  PROVE  OrderInv'
<1>0. /\ emitted + 1 \in Nat /\ event \in Nat /\ queue \in Seq(Nat) /\ outbox \in Seq(Nat)
      /\ \A s \in Sessions : delivered[s] \in Seq(Nat)
      /\ CLOSE \in Nat
  BY OrderTypes
<1>1. /\ Increasing(outbox') /\ Ahead(outbox)'
      /\ \A s \in Sessions : Below(delivered[s], outbox')
  <2>1. CASE outbox' = outbox
    BY <2>1 DEF OrderInv, SessionOrder, Ahead
  <2>2. CASE outbox' = <<>>
    BY <2>2, EmptyOrder DEF Ahead
  <2>3. CASE outbox' = Append(outbox, CLOSE)
    BY <1>0, <2>3, AppendOrder DEF OrderInv, SessionOrder, Ahead
  <2> QED  BY <2>1, <2>2, <2>3
<1>2. \A s \in Sessions : s > created' => s > created
  BY BoundsAssumption DEF Sessions
<1>3. \A s \in Sessions : Ahead(delivered[s])'
  BY DEF OrderInv, SessionOrder, Ahead
<1> QED  BY <1>1, <1>2, <1>3 DEF OrderInv, QueueOrder, SessionOrder

\* The writer hands the channel's oldest event to the socket.
LEMMA OrderWrite ==
  ASSUME QueueTypeOK, OrderInv, created \in 0..MaxSessions, outbox # <<>>, Head(outbox) # CLOSE,
         delivered' = [delivered EXCEPT ![created] = Append(@, Head(outbox))],
         outbox' = Tail(outbox), UNCHANGED <<queue, emitted, event, created>>
  PROVE  OrderInv'
<1> DEFINE h == Head(outbox)
<1>0. /\ emitted + 1 \in Nat /\ event \in Nat /\ queue \in Seq(Nat) /\ outbox \in Seq(Nat)
      /\ \A s \in Sessions : delivered[s] \in Seq(Nat)
      /\ h \in Nat /\ Tail(outbox) \in Seq(Nat)
  BY OrderTypes
<1>1. /\ Newer(Tail(outbox), h) /\ Increasing(Tail(outbox))
      /\ Newer(queue, h) /\ h < emitted + 1 /\ (event # 0 => h < event)
      /\ \A s \in Sessions : Older(delivered[s], h) /\ Below(delivered[s], Tail(outbox))
  BY <1>0, TailOrder DEF OrderInv, SessionOrder, Ahead
<1>2. Ahead(outbox)'
  BY <1>0, TailOrder DEF OrderInv, SessionOrder, Ahead
<1> HIDE DEF h
<1>3. \A s \in Sessions : delivered'[s] = IF s = created THEN Append(delivered[s], h)
                                                         ELSE delivered[s]
  BY DEF QueueTypeOK, h
<1>4. ASSUME NEW s \in Sessions
      PROVE  /\ Increasing(delivered'[s]) /\ Ahead(delivered[s])'
             /\ Below(delivered'[s], outbox') /\ (s > created => delivered'[s] = <<>>)
  <2>0. /\ Increasing(delivered[s]) /\ Ahead(delivered[s]) /\ delivered[s] \in Seq(Nat)
        /\ Below(delivered[s], Tail(outbox)) /\ (s > created => delivered[s] = <<>>)
        /\ Older(delivered[s], h)
    BY <1>0, <1>1 DEF OrderInv, SessionOrder
  <2>1. CASE s # created
    <3>1. delivered'[s] = delivered[s]
      BY <1>3, <2>1
    <3> QED  BY <2>0, <3>1 DEF Ahead
  <2>2. CASE s = created
    <3>0. s \in Nat /\ ~ (s > created)
      BY <2>2, BoundsAssumption DEF Sessions
    <3>1. delivered'[s] = Append(delivered[s], h)
      BY <1>3, <2>2
    <3>2. Increasing(delivered'[s]) /\ Below(delivered'[s], Tail(outbox))
      BY <1>0, <1>1, <2>0, <3>1, AppendOrder
    <3>3. Ahead(delivered[s])'
      BY <1>0, <1>1, <2>0, <3>1, AppendOrder DEF Ahead
    <3> QED  BY <3>0, <3>2, <3>3
  <2> QED  BY <2>1, <2>2
<1>5. ASSUME NEW s \in Sessions, NEW t \in Sessions, s < t
      PROVE  Below(delivered'[s], delivered'[t])
  <2>0. Below(delivered[s], delivered[t])
    BY <1>5 DEF OrderInv, SessionOrder
  <2>1. CASE s = created
    <3>1. t > created /\ t # created
      BY <1>5, <2>1 DEF Sessions
    <3>2. delivered'[t] = <<>>
      BY <1>4, <3>1
    <3> QED  BY <3>2, EmptyOrder
  <2>2. CASE t = created /\ s # created
    BY <1>0, <1>1, <1>3, <2>0, <2>2, AppendOrder
  <2>3. CASE s # created /\ t # created
    BY <1>3, <2>0, <2>3
  <2> QED  BY <2>1, <2>2, <2>3
<1>6. QueueOrder'
  BY DEF OrderInv, QueueOrder
<1> QED  BY <1>1, <1>2, <1>4, <1>5, <1>6 DEF OrderInv, SessionOrder

LEMMA OrderStep == TypeOK /\ OrderInv /\ [Next]_vars => OrderInv'
<1> SUFFICES ASSUME QueueTypeOK, SessionTypeOK, OrderInv, [Next]_vars PROVE OrderInv'
  BY DEF TypeOK
<1>0. created \in 0..MaxSessions /\ created \in Nat /\ created <= created /\ created + 1 \in Nat
      /\ created <= created + 1
  BY BoundsAssumption DEF SessionTypeOK
<1>s. ASSUME UNCHANGED <<queue, emitted, event, outbox, delivered, created>> PROVE OrderInv'
  BY <1>0, <1>s, OrderChannel
<1>1. ASSUME NEW c \in Ops,
             (c \in Callers /\ (Connect(c) \/ Disconnect(c))) \/ OpStep(c) \/ HandlerDropped(c)
      PROVE  OrderInv'
  <2>1. CASE DisconnectDrain(c)
    BY <1>s, <2>1, OrderReceive DEF DisconnectDrain
  <2> QED
    BY <1>s, <1>1, <2>1 DEF Connect, Disconnect, OpStep, TakeOperateLock, ConnectStatus,
       ConnectToken, ConnectSpawnLoop, ConnectSpawnSender, DisconnectStatus,
       DisconnectAbortSender, DisconnectCancel, DisconnectLockRx, DisconnectAwaitLoop,
       DisconnectStopped, HandlerDropped, OpOnly, CallOnly
<1>2. ASSUME CloseSession, UNCHANGED <<queue, emitted, event, delivered, created>>
      PROVE  OrderInv'
  <2>1. outbox' \in {outbox, Append(outbox, CLOSE), <<>>}
    BY <1>2 DEF CloseSession
  <2> QED  BY <1>0, <1>2, <2>1, OrderChannel
<1>3. CASE LoopStep
  BY <1>s, <1>2, <1>3 DEF LoopStep, LoopCheck, LoopStore, LoopStreamEnds, LoopCancelled,
     LoopGraceful, LoopGracefulTimeout, LoopJoinReader, LoopJoinWriter, LoopClear,
     LoopCleanup, LoopClosed, LoopPause, LoopOnly
<1>4. CASE LoopConnectFails \/ LoopConnected
  BY <1>s, <1>0, <1>4, OrderChannel DEF LoopConnectFails, LoopConnected, LoopOnly
<1>5. CASE ReadReady \/ ReadNotify \/ ReadDisconnect \/ ReadEvent \/ ReadEnds \/ SessionTimesOut
  BY <1>s, <1>2, <1>5 DEF ReadReady, ReadNotify, ReadDisconnect, ReadEvent, ReadEnds,
     SessionTimesOut, StreamOnly
<1>6. CASE WriteMessage \/ WriteEnds
  <2>1. CASE outbox' = <<>> /\ UNCHANGED <<queue, emitted, event, delivered, created>>
    BY <1>0, <2>1, OrderChannel
  <2> QED  BY <1>0, <1>6, <2>1, OrderWrite DEF WriteMessage, WriteEnds, StreamOnly
<1>7. ASSUME NEW e \in Emitters, Emit(e) \/ EmitSend(e) PROVE OrderInv'
  BY <1>s, <1>7, OrderEmit DEF Emit, EmitSend, EmitOnly
<1>8. CASE SenderStep \/ SenderStops
  <2>1. CASE SenderRecv
    BY <2>1, OrderReceive DEF SenderRecv, SenderOnly
  <2>2. ASSUME NEW from \in SenderHolds, NEW otherwise, SenderSend(from, otherwise)
        PROVE  OrderInv'
    <3>1. event # 0
      BY <2>2, OrderTypes DEF SenderSend
    <3> QED  BY <1>s, <2>2, <3>1, OrderHandOver DEF SenderSend, SenderOnly
  <2>3. CASE SenderStops
    BY <2>3, OrderHandOver DEF SenderStops, SenderOnly
  <2>4. "send_1" \in SenderHolds /\ "send_2" \in SenderHolds
    BY DEF SenderHolds
  <2> QED
    BY <1>s, <1>8, <2>1, <2>2, <2>3, <2>4 DEF SenderStep, SenderLock, SenderTry, SenderRegister,
       SenderWoken, SenderOnly
<1>9. CASE UNCHANGED vars
  BY <1>s, <1>9 DEF vars
<1> QED
  BY <1>1, <1>3, <1>4, <1>5, <1>6, <1>7, <1>8, <1>9 DEF Next, Ops

\* Events reach the sessions at most once and in the order emit() queued
\* them: an event the sender has not got rid of is newer than every event any
\* session was given, whether it is retried, lost with a session or dropped
\* with the sender.
THEOREM EventsKeepOrder == Spec => []EventsInOrderAtMostOnce
<1>1. Init => OrderInv
  BY EmptyOrder, BoundsAssumption DEF Init, OrderInv, QueueOrder, SessionOrder, Ahead
<1>2. TypeOK /\ OrderInv => EventsInOrderAtMostOnce
  <2> SUFFICES ASSUME TypeOK, OrderInv, NEW s \in Sessions, NEW t \in Sessions,
                      NEW i \in DOMAIN Accepted(s), NEW j \in DOMAIN Accepted(t),
                      s < t \/ (s = t /\ i < j),
                      Accepted(s)[i] # CLOSE, Accepted(t)[j] # CLOSE
               PROVE  Accepted(s)[i] < Accepted(t)[j]
    BY DEF EventsInOrderAtMostOnce
  <2> DEFINE a == delivered[s]
             b == delivered[t]
             o == outbox
  <2>0. a \in Seq(Nat) /\ b \in Seq(Nat) /\ o \in Seq(Nat)
    BY OrderTypes DEF TypeOK
  <2>1. /\ Increasing(a) /\ Increasing(b) /\ Increasing(o)
        /\ Below(a, o) /\ Below(b, o)
        /\ s < t => Below(a, b)
        /\ t > created => b = <<>>
    BY DEF OrderInv, SessionOrder
  <2>2. s \in Nat /\ t \in Nat /\ created \in Nat
    BY BoundsAssumption DEF Sessions, TypeOK, SessionTypeOK
  <2> HIDE DEF a, b, o
  <2>3. CASE s = t
    <3>1. i < j
      BY <2>2, <2>3
    <3>2. CASE s = created
      <4>1. Accepted(s) = a \o o /\ Accepted(t) = a \o o
        BY <2>3, <3>2 DEF Accepted, a, o
      <4>2. Increasing(a \o o) /\ DOMAIN (a \o o) = 1..Len(a \o o)
        BY <2>0, <2>1, ConcatOrder
      <4>3. i \in 1..Len(a \o o) /\ j \in 1..Len(a \o o)
        BY <4>1, <4>2
      <4> QED  BY <3>1, <4>1, <4>2, <4>3 DEF Increasing
    <3>3. CASE s # created
      <4>1. Accepted(s) = a /\ Accepted(t) = a
        BY <2>3, <3>3 DEF Accepted, a
      <4>2. i \in 1..Len(a) /\ j \in 1..Len(a)
        BY <2>0, <4>1
      <4> QED  BY <2>1, <3>1, <4>1, <4>2 DEF Increasing
    <3> QED  BY <3>2, <3>3
  <2>4. CASE s # t
    <3>1. s < t /\ Below(a, b)
      BY <2>1, <2>2, <2>4
    <3>2. CASE s = created
      <4>1. Accepted(t) = b /\ b = <<>>
        BY <2>1, <2>2, <2>4, <3>1, <3>2 DEF Accepted, b
      <4> QED  BY <4>1
    <3>3. CASE t = created
      <4>1. Accepted(s) = a /\ Accepted(t) = b \o o
        BY <2>4, <3>3 DEF Accepted, a, b, o
      <4>2. Below(a, b \o o)
        BY <2>0, <2>1, <3>1, ConcatOrder
      <4>3. i \in 1..Len(a) /\ j \in 1..Len(b \o o)
        BY <2>0, <4>1
      <4> QED  BY <4>1, <4>2, <4>3 DEF Below, Older
    <3>4. CASE s # created /\ t # created
      <4>1. Accepted(s) = a /\ Accepted(t) = b
        BY <3>4 DEF Accepted, a, b
      <4>2. i \in 1..Len(a) /\ j \in 1..Len(b)
        BY <2>0, <4>1
      <4> QED  BY <3>1, <4>1, <4>2 DEF Below, Older
    <3> QED  BY <3>2, <3>3, <3>4
  <2> QED  BY <2>3, <2>4
<1> QED  BY <1>1, <1>2, OrderStep, TypeCorrect, PTL DEF Spec

=============================================================================
