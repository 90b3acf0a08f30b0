----------------------------- MODULE ClientRuntime -----------------------------
(***************************************************************************)
(* The wsio-client runtime (wsio-client/src/runtime.rs): connect() and     *)
(* disconnect(), the connection loop with its reconnects, the queue of     *)
(* emitted events and the task that forwards them to the current session.  *)
(* Of a session (session.rs) only what the runtime sees is kept: whether   *)
(* it is in its handshake, Ready or ended, its reader and writer tasks,    *)
(* its outgoing channel and its ping task.  The stream tasks of an ended   *)
(* session were aborted: they are gone when the next session starts.       *)
(*                                                                         *)
(* Sessions are numbered in the order they are created, events in the      *)
(* order the queue accepts them.                                           *)
(***************************************************************************)
EXTENDS Integers, Sequences

CONSTANTS
  Callers,      \* tasks that call connect() and disconnect()
  Handlers,     \* those of them that are handlers, run by spawn_task(): event
                \* handlers and the on_session_ready handler
  Detached,     \* bound: the tasks a Disconnect packet can start; an idle caller
                \* may stand for one
  Emitters,     \* tasks that call emit()
  QueueSize,    \* capacity of the event queue
  ChannelSize,  \* capacity of a session's message channel
  MaxSessions,  \* bound: sessions created in a run
  MaxEvents     \* bound: events emitted in a run

ASSUME SizesAssumption == QueueSize \in Nat \ {0} /\ ChannelSize \in Nat \ {0}
ASSUME BoundsAssumption == MaxSessions \in Nat /\ MaxEvents \in Nat
ASSUME CallersAssumption ==
  /\ Handlers \subseteq Callers /\ Handlers \cap Detached = {}
  /\ {"nobody", "sender"} \cap (Callers \cup Detached) = {}

VARIABLES
  status,     \* RuntimeStatus
  lock,       \* who holds operate_lock
  op,         \* program counter of every connect()/disconnect() call
  cancelled,  \* the current cancel token is cancelled
  token,      \* the cancel token every running handler was spawned with
  loop,       \* program counter of the connection loop task
  joined,     \* the stream task whose handle a select! already consumed
  created,    \* how many sessions have been created
  slot,       \* the session in runtime.session, or 0
  life,       \* the life of every session: "handshake", "Ready", "Closing", "Closed"
  pings,      \* sessions whose ping task is running
  reader,     \* the current session's reader: "next", "notify" or "done"
  writer,     \* the current session's writer: "running" or "done"
  aborted,    \* which of "reader", "writer" were aborted
  outbox,     \* the current session's channel
  delivered,  \* per session, the events its writer handed to the socket
  queue,      \* the event queue (send_event_message_tx / _rx)
  emitted,    \* how many events the queue has accepted
  emitting,   \* program counter of every emit() call
  rxLock,     \* who holds send_event_message_rx
  sender,     \* program counter of the send-event-message task
  event,      \* the event the sender is holding
  target,     \* the session the sender is sending it to
  notified    \* the sender's Notified future has been woken

opVars      == <<status, lock, op, cancelled, token>>
sessionVars == <<created, slot, life, pings>>
streamVars  == <<reader, writer, aborted, outbox, delivered>>
queueVars   == <<queue, emitted, emitting>>
senderVars  == <<rxLock, sender, event, target, notified>>
vars == <<opVars, loop, joined, sessionVars, streamVars, queueVars, senderVars>>

Sessions == 1..MaxSessions
Events == 1..MaxEvents
CLOSE == MaxEvents + 1       \* the Close frame, beside the events in outbox
Ops == Callers \cup Detached
Live == {"handshake", "Ready"}  \* the states close() turns into Closing

OpPC == {"absent", "idle", "connect", "connect_status", "token", "spawn_loop", "spawn_sender",
         "disconnect", "disconnect_status", "abort_sender", "cancel", "lock_rx", "drain",
         "await_loop", "stopped", "panicked"}
LoopPC == {"none", "check", "connecting", "store", "select", "graceful",
           "join_reader", "join_writer", "clear", "cleanup", "closed", "pause", "done",
           "panicked"}
SenderPC == {"none", "lock", "recv", "try_1", "send_1", "register", "try_2", "send_2",
             "wait"}
SenderHolds == {"try_1", "send_1", "register", "try_2", "send_2", "wait"}

OpTypeOK ==
  /\ status \in {"Stopped", "Running", "Stopping"}
  /\ lock \in Ops \cup {"nobody"}
  /\ op \in [Ops -> OpPC]
  /\ cancelled \in BOOLEAN
  /\ token \in [Handlers -> {"none", "runtime", "session", "cancelled"}]
  /\ loop \in LoopPC
  /\ joined \in {"none", "reader", "writer"}

SessionTypeOK ==
  /\ created \in 0..MaxSessions /\ slot \in 0..MaxSessions
  /\ life \in [Sessions -> {"none", "handshake", "Ready", "Closing", "Closed"}]
  /\ pings \subseteq Sessions
  /\ reader \in {"next", "notify", "done"}
  /\ writer \in {"running", "done"}
  /\ aborted \subseteq {"reader", "writer"}

QueueTypeOK ==
  /\ emitted \in 0..MaxEvents
  /\ queue \in Seq(Events) /\ Len(queue) <= QueueSize
  /\ event \in 0..MaxEvents /\ (sender \in SenderHolds => event # 0)
  /\ emitting \in [Emitters -> {"idle", "send"}]
  /\ outbox \in Seq(Events \cup {CLOSE}) /\ Len(outbox) <= ChannelSize
  /\ delivered \in [Sessions -> Seq(Events)]

SenderTypeOK ==
  /\ rxLock \in Ops \cup {"nobody", "sender"}
  /\ sender \in SenderPC
  /\ target \in 0..MaxSessions
  /\ notified \in BOOLEAN

\* Every variable has its type; the two bounded channels hold no more than
\* their capacity.
TypeOK == OpTypeOK /\ SessionTypeOK /\ QueueTypeOK /\ SenderTypeOK

Init ==
  /\ status = "Stopped" /\ lock = "nobody"
  /\ op = [c \in Ops |-> IF c \in Handlers THEN "absent" ELSE "idle"]
  /\ cancelled = FALSE /\ token = [h \in Handlers |-> "none"]
  /\ loop = "none" /\ joined = "none"
  /\ created = 0 /\ slot = 0 /\ life = [s \in Sessions |-> "none"] /\ pings = {}
  /\ reader = "done" /\ writer = "done" /\ aborted = {} /\ outbox = <<>>
  /\ delivered = [s \in Sessions |-> <<>>]
  /\ queue = <<>> /\ emitted = 0 /\ emitting = [e \in Emitters |-> "idle"]
  /\ rxLock = "nobody" /\ sender = "none" /\ event = 0 /\ target = 0 /\ notified = FALSE

-----------------------------------------------------------------------------
(***************************************************************************)
(* connect().                                                              *)
(***************************************************************************)
Goto(c, from, to) == op[c] = from /\ op' = [op EXCEPT ![c] = to]

\* The handlers spawned with token t are told to stop.
CancelToken(t) == token' = [h \in Handlers |-> IF token[h] = t THEN "cancelled" ELSE token[h]]

CallOnly == UNCHANGED <<joined, sessionVars, streamVars, queueVars>>
OpOnly == CallOnly /\ UNCHANGED token

Connect(c) ==
  /\ Goto(c, "idle", "connect")
  /\ OpOnly /\ UNCHANGED <<status, lock, cancelled, loop, senderVars>>

Disconnect(c) ==
  /\ Goto(c, "idle", "disconnect")
  /\ OpOnly /\ UNCHANGED <<status, lock, cancelled, loop, senderVars>>

\* operate_lock.lock().await
TakeOperateLock(c) ==
  /\ lock = "nobody" /\ lock' = c
  /\ \/ Goto(c, "connect", "connect_status")
     \/ Goto(c, "disconnect", "disconnect_status")
  /\ OpOnly /\ UNCHANGED <<status, cancelled, loop, senderVars>>

\* Running: return.  Stopped: go on.  Anything else is unreachable!().
ConnectStatus(c) ==
  /\ Goto(c, "connect_status", CASE status = "Running" -> "idle"
                                 [] status = "Stopped" -> "token"
                                 [] OTHER -> "panicked")
  /\ status' = IF status = "Stopped" THEN "Running" ELSE status
  /\ lock' = IF status = "Stopped" THEN c ELSE "nobody"
  /\ OpOnly /\ UNCHANGED <<cancelled, loop, senderVars>>

ConnectToken(c) ==
  /\ Goto(c, "token", "spawn_loop")
  /\ cancelled' = FALSE
  /\ OpOnly /\ UNCHANGED <<status, lock, loop, senderVars>>

ConnectSpawnLoop(c) ==
  /\ Goto(c, "spawn_loop", "spawn_sender")
  /\ loop' = "check"
  /\ OpOnly /\ UNCHANGED <<status, lock, cancelled, senderVars>>

ConnectSpawnSender(c) ==
  /\ Goto(c, "spawn_sender", "idle")
  /\ sender' = "lock"
  /\ lock' = "nobody"
  /\ OpOnly /\ UNCHANGED <<status, cancelled, loop, rxLock, event, target, notified>>

(***************************************************************************)
(* disconnect(), called by the application or by the detached task that a  *)
(* Disconnect packet starts.                                               *)
(***************************************************************************)
DisconnectStatus(c) ==
  /\ Goto(c, "disconnect_status", CASE status = "Stopped" -> "idle"
                                    [] status = "Running" -> "abort_sender"
                                    [] OTHER -> "panicked")
  /\ status' = IF status = "Running" THEN "Stopping" ELSE status
  /\ lock' = IF status = "Running" THEN c ELSE "nobody"
  /\ OpOnly /\ UNCHANGED <<cancelled, loop, senderVars>>

\* send_event_message_task.abort(): the sender stops at its next await point.
DisconnectAbortSender(c) ==
  /\ Goto(c, "abort_sender", "cancel")
  /\ OpOnly /\ UNCHANGED <<status, lock, cancelled, loop, senderVars>>

\* Mutant: the token is not cancelled.
DisconnectNoCancel(c) ==
  /\ Goto(c, "cancel", "lock_rx")
  /\ OpOnly /\ UNCHANGED <<status, lock, cancelled, loop, senderVars>>

DisconnectCancel(c) ==
  /\ Goto(c, "cancel", "lock_rx")
  /\ cancelled' = TRUE /\ CancelToken("runtime")
  /\ CallOnly /\ UNCHANGED <<status, lock, loop, senderVars>>

\* send_event_message_rx.lock().await: free once the aborted sender dropped
\* it, or if the sender never took it.
DisconnectLockRx(c) ==
  /\ Goto(c, "lock_rx", "drain")
  /\ rxLock = "nobody" /\ rxLock' = c
  /\ sender' = "none"
  /\ OpOnly /\ UNCHANGED <<status, lock, cancelled, loop, event, target, notified>>

\* while try_recv().is_ok() {}
DisconnectDrain(c) ==
  /\ op[c] = "drain"
  /\ IF queue = <<>> THEN Goto(c, "drain", "await_loop") /\ UNCHANGED queue
                     ELSE queue' = Tail(queue) /\ UNCHANGED op
  /\ UNCHANGED <<status, lock, cancelled, token, loop, joined, sessionVars, streamVars, emitted,
                 emitting, senderVars>>

\* Mutant: the loop is taken out of connection_loop_task and not awaited.
DisconnectForgetLoop(c) ==
  /\ Goto(c, "await_loop", "stopped")
  /\ loop' = "none"
  /\ OpOnly /\ UNCHANGED <<status, lock, cancelled, senderVars>>

\* connection_loop_task.await: the task has returned or panicked.
DisconnectAwaitLoop(c) ==
  /\ Goto(c, "await_loop", "stopped")
  /\ loop \in {"done", "panicked"} /\ loop' = "none"
  /\ OpOnly /\ UNCHANGED <<status, lock, cancelled, senderVars>>

DisconnectStopped(c) ==
  /\ Goto(c, "stopped", "idle")
  /\ status' = "Stopped"
  /\ lock' = "nobody" /\ rxLock' = "nobody"
  /\ OpOnly /\ UNCHANGED <<cancelled, loop, sender, event, target, notified>>

\* spawn_task() runs a handler in a select! with the cancel token of the
\* runtime (events) or of the session (on_session_ready): the handler is
\* dropped, with the call it is making and the guards of that call, where it
\* awaits once the token is cancelled, be it through its own disconnect().
HandlerDropped(c) ==
  /\ c \in Handlers /\ token[c] = "cancelled" /\ token' = [token EXCEPT ![c] = "none"]
  /\ \E pc \in {"idle", "connect", "disconnect", "lock_rx", "await_loop"} : Goto(c, pc, "absent")
  /\ lock' = IF lock = c THEN "nobody" ELSE lock
  /\ rxLock' = IF rxLock = c THEN "nobody" ELSE rxLock
  /\ CallOnly /\ UNCHANGED <<status, cancelled, loop, sender, event, target, notified>>

\* A handler is spawned with token t, which may be cancelled already.
SpawnHandler(t, isCancelled) ==
  \E h \in Handlers :
    /\ Goto(h, "absent", "idle")
    /\ token' = [token EXCEPT ![h] = IF isCancelled THEN "cancelled" ELSE t]

-----------------------------------------------------------------------------
(***************************************************************************)
(* The connection loop and run_connection().                               *)
(***************************************************************************)
LoopOnly == UNCHANGED <<opVars, queueVars, senderVars>>

LoopCheck ==
  /\ loop = "check"
  /\ loop' = IF status = "Running" THEN "connecting" ELSE "done"
  /\ LoopOnly /\ UNCHANGED <<joined, sessionVars, streamVars>>

\* The request modifier or connect_async fails.
LoopConnectFails ==
  /\ loop = "connecting" /\ loop' = "pause"
  /\ LoopOnly /\ UNCHANGED <<joined, sessionVars, streamVars>>

\* connect_async succeeds: a new session is created and initialised (its
\* watchdog and ping task start), and its reader and writer are spawned.
LoopConnected ==
  /\ loop = "connecting" /\ created < MaxSessions
  /\ loop' = "store"
  /\ created' = created + 1
  /\ life' = [life EXCEPT ![created'] = "handshake"]
  /\ pings' = pings \cup {created'}
  /\ reader' = "next" /\ writer' = "running" /\ aborted' = {} /\ outbox' = <<>>
  /\ LoopOnly /\ UNCHANGED <<joined, slot, delivered>>

\* session.store(Some(session)), after the reader was started.
LoopStore ==
  /\ loop = "store" /\ loop' = "select"
  /\ slot' = created
  /\ LoopOnly /\ UNCHANGED <<joined, created, life, pings, streamVars>>

\* session.close(): Closing, and a Close frame if the channel takes one.
CloseSession ==
  /\ life' = IF life[created] \in Live
               THEN [life EXCEPT ![created] = "Closing"] ELSE life
  /\ outbox' = IF /\ life[created] \in Live
                  /\ writer = "running" /\ Len(outbox) < ChannelSize
                 THEN Append(outbox, CLOSE) ELSE outbox

\* select!: a stream task ends and the other one is aborted, not joined.
LoopStreamEnds ==
  /\ loop = "select" /\ loop' = "clear"
  /\ \/ reader = "done" /\ aborted' = aborted \cup {"writer"}
     \/ writer = "done" /\ aborted' = aborted \cup {"reader"}
  /\ LoopOnly /\ UNCHANGED <<joined, sessionVars, reader, writer, outbox, delivered>>

\* select!: the token is cancelled.
LoopCancelled ==
  /\ loop = "select" /\ cancelled /\ loop' = "graceful"
  /\ CloseSession
  /\ LoopOnly /\ UNCHANGED <<joined, created, slot, pings, reader, writer, aborted, delivered>>

\* The graceful shutdown: the inner select! takes the output of the handle
\* that ends first.
LoopGraceful ==
  /\ loop = "graceful" /\ loop' = "join_reader"
  /\ \/ reader = "done" /\ joined' = "reader" /\ aborted' = aborted \cup {"writer"}
     \/ writer = "done" /\ joined' = "writer" /\ aborted' = aborted \cup {"reader"}
  /\ LoopOnly /\ UNCHANGED <<sessionVars, reader, writer, outbox, delivered>>

\* disconnect_timeout passes first: both are aborted, no output was taken.
LoopGracefulTimeout ==
  /\ loop = "graceful" /\ loop' = "join_reader"
  /\ joined' = "none" /\ aborted' = {"reader", "writer"}
  /\ LoopOnly /\ UNCHANGED <<sessionVars, reader, writer, outbox, delivered>>

\* read_ws_stream_task.await; write_ws_stream_task.await: a JoinHandle that
\* already gave its output panics when it is polled again.
LoopJoinReader ==
  /\ loop = "join_reader" /\ (joined = "reader" \/ reader = "done")
  /\ loop' = IF joined = "reader" THEN "panicked" ELSE "join_writer"
  /\ LoopOnly /\ UNCHANGED <<joined, sessionVars, streamVars>>

LoopJoinWriter ==
  /\ loop = "join_writer" /\ (joined = "writer" \/ writer = "done")
  /\ loop' = IF joined = "writer" THEN "panicked" ELSE "clear"
  /\ LoopOnly /\ UNCHANGED <<joined, sessionVars, streamVars>>

\* session.store(None)
LoopClear ==
  /\ loop = "clear" /\ loop' = "cleanup"
  /\ slot' = 0 /\ joined' = "none"
  /\ LoopOnly /\ UNCHANGED <<created, life, pings, streamVars>>

\* session.cleanup(): Closing; then its tasks aborted, its token cancelled, the
\* close handler, Closed.
LoopCleanup ==
  /\ loop = "cleanup" /\ loop' = "closed"
  /\ life' = [life EXCEPT ![created] = "Closing"]
  /\ LoopOnly /\ UNCHANGED <<joined, created, slot, pings, streamVars>>

LoopClosed ==
  /\ loop = "closed" /\ loop' = "pause" /\ CancelToken("session")
  /\ life' = [life EXCEPT ![created] = "Closed"]
  /\ pings' = pings \ {created}
  /\ UNCHANGED <<status, lock, op, cancelled, queueVars, senderVars>>
  /\ UNCHANGED <<joined, created, slot, streamVars>>

\* The reconnect delay, or the cancel token, or no delay when not Running.
LoopPause ==
  /\ loop = "pause" /\ loop' = "check"
  /\ LoopOnly /\ UNCHANGED <<joined, sessionVars, streamVars>>

-----------------------------------------------------------------------------
(***************************************************************************)
(* The current session's reader and writer.                                *)
(***************************************************************************)
StreamOnly == UNCHANGED <<loop, joined, created, slot, pings, queueVars, delivered>>

\* The handshake completes: AwaitingReady becomes Ready (compare-and-swap) ...
ReadReady ==
  /\ reader = "next" /\ life[created] = "handshake"
  /\ reader' = "notify"
  /\ life' = [life EXCEPT ![created] = "Ready"]
  /\ StreamOnly /\ UNCHANGED <<opVars, writer, aborted, outbox, senderVars>>

\* ... notify_waiters() wakes the sender if it holds a Notified future, and
\* the on_session_ready handler is spawned if there is one.
ReadNotify ==
  /\ reader = "notify" /\ reader' = "next"
  /\ notified' = (notified \/ sender \in {"try_2", "send_2", "wait"})
  /\ UNCHANGED <<op, token>> \/ SpawnHandler("session", life[created] = "Closed")
  /\ StreamOnly /\ UNCHANGED <<status, lock, cancelled, life, writer, aborted, outbox, rxLock,
                               sender, event, target>>

\* A Disconnect packet: a detached task runs runtime.disconnect().
ReadDisconnect ==
  /\ reader = "next" /\ \E d \in Detached : Goto(d, "idle", "disconnect")
  /\ StreamOnly /\ UNCHANGED <<status, lock, cancelled, token, life, reader, writer, aborted, outbox,
                               senderVars>>

\* An Event packet of a Ready session starts an event handler.
ReadEvent ==
  /\ reader = "next" /\ life[created] = "Ready"
  /\ SpawnHandler("runtime", cancelled)
  /\ StreamOnly /\ UNCHANGED <<status, lock, cancelled, life, reader, writer, aborted, outbox,
                               senderVars>>

\* The socket ends or fails, a packet is refused, or the abort arrives.
ReadEnds ==
  /\ reader = "next" /\ reader' = "done"
  /\ StreamOnly /\ UNCHANGED <<opVars, life, writer, aborted, outbox, senderVars>>

ReadStops == "reader" \in aborted /\ ReadEnds

\* An init or ready timeout, or a failed ping, closes the session; a watchdog
\* that saw the handshake may close it after it became Ready.
SessionTimesOut ==
  /\ created > 0 /\ life[created] \in Live
  /\ CloseSession
  /\ StreamOnly /\ UNCHANGED <<opVars, reader, writer, aborted, senderVars>>

WriteMessage ==
  /\ writer = "running" /\ outbox # <<>>
  /\ IF Head(outbox) = CLOSE
       THEN writer' = "done" /\ outbox' = <<>> /\ UNCHANGED delivered
       ELSE /\ delivered' = [delivered EXCEPT ![created] = Append(@, Head(outbox))]
            /\ outbox' = Tail(outbox) /\ UNCHANGED writer
  /\ UNCHANGED <<opVars, loop, joined, sessionVars, reader, aborted, queueVars, senderVars>>

\* A write fails, or the abort arrives: what the channel held is dropped.
WriteEnds ==
  /\ writer = "running" /\ (outbox # <<>> \/ "writer" \in aborted)
  /\ writer' = "done" /\ outbox' = <<>>
  /\ StreamOnly /\ UNCHANGED <<opVars, life, reader, aborted, senderVars>>

WriteStops == "writer" \in aborted /\ WriteEnds

-----------------------------------------------------------------------------
(***************************************************************************)
(* emit(): the status is checked first, the queue is waited for after.     *)
(***************************************************************************)
EmitOnly == UNCHANGED <<opVars, loop, joined, sessionVars, streamVars, senderVars>>

Emit(e) ==
  /\ emitting[e] = "idle" /\ status = "Running"
  /\ emitting' = [emitting EXCEPT ![e] = "send"]
  /\ EmitOnly /\ UNCHANGED <<queue, emitted>>

\* Mutant: the queue has no bound.
EmitSendUnbounded(e) ==
  /\ emitting[e] = "send" /\ emitted < MaxEvents
  /\ emitting' = [emitting EXCEPT ![e] = "idle"]
  /\ emitted' = emitted + 1
  /\ queue' = Append(queue, emitted')
  /\ EmitOnly

EmitSend(e) ==
  /\ emitting[e] = "send" /\ emitted < MaxEvents /\ Len(queue) < QueueSize
  /\ emitting' = [emitting EXCEPT ![e] = "idle"]
  /\ emitted' = emitted + 1
  /\ queue' = Append(queue, emitted')
  /\ EmitOnly

(***************************************************************************)
(* The send-event-message task.                                            *)
(***************************************************************************)
SenderOnly == UNCHANGED <<opVars, loop, joined, sessionVars, reader, writer, aborted,
                          delivered, emitted, emitting>>

SenderLock ==
  /\ sender = "lock" /\ rxLock = "nobody"
  /\ sender' = "recv" /\ rxLock' = "sender"
  /\ SenderOnly /\ UNCHANGED <<outbox, queue, event, target, notified>>

SenderRecv ==
  /\ sender = "recv" /\ queue # <<>>
  /\ sender' = "try_1" /\ event' = Head(queue) /\ queue' = Tail(queue)
  /\ SenderOnly /\ UNCHANGED <<outbox, rxLock, target, notified>>

\* session.load() and the Ready check of emit_event_message.
SenderTry(from, ready, otherwise) ==
  /\ sender = from
  /\ IF slot # 0 /\ life[slot] = "Ready"
       THEN sender' = ready /\ target' = slot
       ELSE sender' = otherwise /\ UNCHANGED target
  /\ SenderOnly /\ UNCHANGED <<outbox, queue, rxLock, event, notified>>

\* Mutant: no break once the session has taken the event.
SenderSendNoBreak(from, otherwise) ==
  /\ sender = from /\ sender' = otherwise /\ target' = 0
  /\ \/ /\ target = created /\ writer = "running" /\ Len(outbox) < ChannelSize
        /\ outbox' = Append(outbox, event)
     \/ /\ target # created \/ writer = "done"
        /\ UNCHANGED outbox
  /\ SenderOnly /\ UNCHANGED <<queue, rxLock, event, notified>>

\* The session's channel takes the event, or is closed.
SenderSend(from, otherwise) ==
  /\ sender = from
  /\ \/ /\ target = created /\ writer = "running" /\ Len(outbox) < ChannelSize
        /\ outbox' = Append(outbox, event)
        /\ sender' = "recv" /\ event' = 0 /\ target' = 0 /\ notified' = FALSE
     \/ /\ target # created \/ writer = "done"
        /\ sender' = otherwise /\ target' = 0 /\ UNCHANGED <<outbox, event, notified>>
  /\ SenderOnly /\ UNCHANGED <<queue, rxLock>>

\* notified(): from here on notify_waiters() is remembered.
SenderRegister ==
  /\ sender = "register" /\ sender' = "try_2"
  /\ notified' = FALSE
  /\ SenderOnly /\ UNCHANGED <<outbox, queue, rxLock, event, target>>

SenderWoken ==
  /\ sender = "wait" /\ notified
  /\ sender' = "try_1" /\ notified' = FALSE
  /\ SenderOnly /\ UNCHANGED <<outbox, queue, rxLock, event, target>>

SenderStep ==
  \/ SenderLock \/ SenderRecv \/ SenderRegister \/ SenderWoken
  \/ SenderTry("try_1", "send_1", "register") \/ SenderSend("send_1", "register")
  \/ SenderTry("try_2", "send_2", "wait") \/ SenderSend("send_2", "wait")

\* The abort of disconnect() drops the task, and its event, where it awaits.
SenderStops ==
  /\ status = "Stopping" /\ \A c \in Ops : op[c] # "abort_sender"
  /\ sender \in {"lock", "recv", "send_1", "send_2", "wait"}
  /\ sender' = "none" /\ event' = 0 /\ target' = 0 /\ notified' = FALSE
  /\ rxLock' = IF rxLock = "sender" THEN "nobody" ELSE rxLock
  /\ SenderOnly /\ UNCHANGED <<outbox, queue>>

-----------------------------------------------------------------------------
OpStep(c) ==
  \/ TakeOperateLock(c)
  \/ ConnectStatus(c) \/ ConnectToken(c) \/ ConnectSpawnLoop(c) \/ ConnectSpawnSender(c)
  \/ DisconnectStatus(c) \/ DisconnectAbortSender(c) \/ DisconnectCancel(c)
  \/ DisconnectLockRx(c) \/ DisconnectDrain(c) \/ DisconnectAwaitLoop(c)
  \/ DisconnectStopped(c)

LoopStep ==
  \/ LoopCheck \/ LoopStore \/ LoopStreamEnds \/ LoopCancelled \/ LoopGraceful
  \/ LoopGracefulTimeout \/ LoopJoinReader \/ LoopJoinWriter \/ LoopClear \/ LoopCleanup
  \/ LoopClosed \/ LoopPause

Next ==
  \/ \E c \in Callers : Connect(c) \/ Disconnect(c)
  \/ \E c \in Ops : OpStep(c) \/ HandlerDropped(c)
  \/ LoopStep \/ LoopConnectFails \/ LoopConnected
  \/ ReadReady \/ ReadNotify \/ ReadDisconnect \/ ReadEvent \/ ReadEnds
  \/ SessionTimesOut \/ WriteMessage \/ WriteEnds
  \/ \E e \in Emitters : Emit(e) \/ EmitSend(e)
  \/ SenderStep \/ SenderStops

Spec == Init /\ [][Next]_vars

(***************************************************************************)
(* Fairness: Tokio runs what can run, timers fire, and operate_lock, a     *)
(* Tokio mutex, is handed on in the order of the waiters.  Nothing is assumed*)
(* of the application, of the peer, of a socket write, or of the request   *)
(* modifier and connect_async, which have no timeout.                      *)
(***************************************************************************)
Fairness ==
  /\ \A c \in Ops : WF_vars(OpStep(c)) /\ SF_vars(TakeOperateLock(c))
  /\ WF_vars(LoopStep)
  /\ WF_vars(ReadNotify) /\ WF_vars(ReadStops) /\ WF_vars(WriteStops)
  /\ WF_vars(SenderStep) /\ WF_vars(SenderStops)

FairSpec == Spec /\ Fairness

-----------------------------------------------------------------------------
(***************************************************************************)
(* Properties.                                                             *)
(***************************************************************************)
\* At most one session is alive: the next one is created only after the
\* previous one was closed or cleaned up, also across disconnect() and
\* connect() calls of several tasks.
OneLiveSession ==
  \A s, t \in Sessions : life[s] \in Live /\ life[t] \in Live => s = t

(***************************************************************************)
(* What makes the two invariants below inductive: a call past              *)
(* operate_lock holds it, Stopping is the status of a disconnect() under   *)
(* way, and a session is live only while the loop is inside                *)
(* run_connection(), which disconnect() waits for.                         *)
(***************************************************************************)
Critical == OpPC \ {"absent", "idle", "connect", "disconnect", "panicked"}
Stopping == {"abort_sender", "cancel", "lock_rx", "drain", "await_loop", "stopped"}
Starting == {"token", "spawn_loop", "spawn_sender"}

LockInv == \A c \in Ops : op[c] \in Critical => lock = c

LoopInv ==
  /\ status = "Stopped" => loop = "none"
  /\ \A c \in Ops : op[c] \in Starting => status = "Running"
  /\ \A c \in Ops : op[c] \in {"token", "spawn_loop", "stopped"} => loop = "none"

LifeInv ==
  /\ \A s \in Sessions : life[s] \in Live => s = created
  /\ loop \notin {"store", "select", "clear", "cleanup"} =>
       \A s \in Sessions : life[s] \notin Live

(***************************************************************************)
(* What a disconnect() waits for.  The queue's receiver belongs to the     *)
(* sender past its lock() or to the one disconnect() that took it over,    *)
(* and both the sender and the loop are gone when connect() starts them    *)
(* again.                                                                  *)
(***************************************************************************)
Draining == {"drain", "await_loop", "stopped"}

ReceiverInv ==
  /\ \A c \in Ops : op[c] \in Draining => rxLock = c
  /\ \A c \in Ops : rxLock = c => op[c] \in Draining
  /\ rxLock = "sender" => sender \notin {"none", "lock"}
  /\ status = "Stopped" => sender = "none"
  /\ \A c \in Ops : op[c] \in Starting \cup Draining => sender = "none"

RunningInv ==
  /\ \A c \in Ops : op[c] \in Stopping => status = "Stopping"
  /\ \A c \in Ops : op[c] \in Draining \cup {"lock_rx"} => cancelled
  /\ \A c \in Ops : op[c] \in Stopping \ {"stopped"} => loop # "none"
  /\ status = "Running" /\ loop = "none" => \E c \in Ops : op[c] \in {"token", "spawn_loop"}

\* disconnect() never waits for something that nobody ends.  Where it waits
\* for the receiver, only the sender it has aborted can hold it: no other
\* call, and not the sender of an earlier connect().  Where it waits for the
\* loop, there is one, it is cancelled, the status sends it out of its while,
\* and the receiver stays with the waiting call, so that no event is taken.
DisconnectCanFinish ==
  \A c \in Ops :
    /\ op[c] = "lock_rx" =>
         /\ rxLock \in {"nobody", "sender"} /\ (rxLock = "sender" => sender # "none")
         /\ status = "Stopping" /\ \A d \in Ops : op[d] # "abort_sender"
    /\ op[c] = "await_loop" =>
         loop # "none" /\ cancelled /\ status = "Stopping" /\ rxLock = c /\ sender = "none"

\* connect() and disconnect() never run into unreachable!(): operate_lock
\* hides the status Stopping from every other call.
NeverUnreachable == \A c \in Ops : op[c] # "panicked"

\* A call meets unreachable!() only after a disconnect() was abandoned: the
\* status is Stopping and nobody is stopping any more.  While a disconnect()
\* is under way operate_lock hides the status Stopping from every other call.
PanicMeansAbandoned ==
  ~NeverUnreachable => status = "Stopping" /\ \A c \in Ops : op[c] \notin Stopping

\* The messages a session was given, in the order it was given them.
Accepted(s) == IF s = created THEN delivered[s] \o outbox ELSE delivered[s]

\* Events reach the sessions at most once and in the order emit() queued
\* them, across reconnects, retries of the sender and new senders.
EventsInOrderAtMostOnce ==
  \A s, t \in Sessions :
    \A i \in DOMAIN Accepted(s), j \in DOMAIN Accepted(t) :
      /\ s < t \/ (s = t /\ i < j)
      /\ Accepted(s)[i] # CLOSE /\ Accepted(t)[j] # CLOSE
      => Accepted(s)[i] < Accepted(t)[j]

\* The close handler "runs when a session closes ... during session cleanup":
\* once disconnect() is over every session has been cleaned up.
DisconnectCleansUp ==
  status = "Stopped" => \A s \in 1..created : life[s] = "Closed" /\ s \notin pings

\* disconnect() returns: it cancels the token "to abort all waiting operations
\* (ongoing operations, connection loop task)" it waits for.
DisconnectReturns ==
  \A c \in Callers \ Handlers : op[c] = "disconnect" ~> op[c] = "idle"

\* An event does not wait for ever while the stored session is Ready.
NoLostWakeup ==
  []<>~(sender = "wait" /\ slot # 0 /\ life[slot] = "Ready")

=============================================================================
