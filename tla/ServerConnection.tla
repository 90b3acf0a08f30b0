--------------------------- MODULE ServerConnection ---------------------------
(***************************************************************************)
(* One connection of a wsio-server namespace, from the upgraded socket to  *)
(* the end of cleanup (connection/mod.rs, and handle_upgraded_request,     *)
(* insert_connection and remove_connection of namespace/mod.rs).           *)
(*                                                                         *)
(* Several Tokio tasks work on the connection at the same time:            *)
(*   - the driver: handle_upgraded_request, i.e. init(), the wait for one  *)
(*     of the two stream tasks, cleanup();                                 *)
(*   - the reader: read_ws_stream_task, which runs handle_incoming_packet  *)
(*     and through it the whole of handle_init_packet;                     *)
(*   - the writer: write_ws_stream_task, which drains the bounded channel; *)
(*   - the init-timeout watchdog;                                          *)
(*   - application tasks that hold the connection or reach it through a    *)
(*     broadcast: they close, disconnect and emit.                         *)
(* A step is one access to shared state: an atomic operation on `state`,   *)
(* one registry update, one channel operation.  A task that was aborted    *)
(* stops at an await point, not before it.                                 *)
(***************************************************************************)
EXTENDS Integers, Sequences, FiniteSets

CONSTANTS
  Capacity,     \* size of the message channel (message_tx / message_rx)
  Closers,      \* application tasks that disconnect() or broadcast a close
  Emitters,     \* application tasks that emit() or broadcast a message
  Configured    \* the optional namespace handlers that are configured

Handlers == {"init_request", "init_response", "middleware", "on_connect",
             "on_ready"}

ASSUME CapacityAssumption == Capacity \in Nat \ {0}
ASSUME ClosersAssumption == {"driver", "watchdog"} \cap Closers = {}
ASSUME ConfiguredAssumption == Configured \subseteq Handlers

VARIABLES
  state,        \* ConnectionState of the connection
  driver,       \* program counter of handle_upgraded_request
  endedBy,      \* what made the driver leave init()/select!
  reader,       \* program counter of read_ws_stream_task
  readAborted,  \* read_ws_stream_task.abort() was called
  chan,         \* the messages in the channel
  writer,       \* write_ws_stream_task is "running" or "done"
  writing,      \* the message the writer is sending, or "none"
  writeAborted, \* write_ws_stream_task.abort() was called
  sent,         \* which of the Ready packet and the Close frame the socket has taken
  watchdog,     \* program counter of the init-timeout task
  timeoutTask,  \* init_timeout_task holds the watchdog's handle
  registered,   \* the registries that hold the connection's id
  exposed,      \* a handler has been given the connection
  closing,      \* program counter of every close() caller
  emitting,     \* program counter of every emit() caller
  onClose,      \* on_close_handler holds a handler
  cancelled,    \* the cancel token is cancelled
  tasks         \* detached handler tasks (spawn_task) that are running

driverVars == <<driver, endedBy>>
readVars   == <<reader, readAborted>>
writeVars  == <<chan, writer, writing, writeAborted, sent>>
watchVars  == <<watchdog, timeoutTask>>
callVars   == <<exposed, closing, emitting, onClose>>
taskVars   == <<cancelled, tasks>>
vars == <<state, driverVars, readVars, writeVars, watchVars, registered,
          callVars, taskVars>>

-----------------------------------------------------------------------------
(***************************************************************************)
(* Sets of values.                                                         *)
(***************************************************************************)
ConnectionState == {"Created", "AwaitingInit", "Initiating", "Activating",
                    "Ready", "Closing", "Closed"}
Ended == {"Closing", "Closed"}

\* What the channel carries: protocol packets and the websocket Close frame.
Message == {"Init", "Ready", "Event", "Disconnect", "Close"}

\* The messages whose sending the properties speak of.
Milestones == {"Ready", "Close"}

\* namespace.connections, runtime.connection_ids, namespace.connection_ids.
Registries == {"connections", "runtime_ids", "namespace_ids"}

CloseCallers == Closers \cup {"driver", "watchdog"}
ClosePC == {"idle", "send_disconnect", "get", "store", "try_send", "done"}
EmitPC == {"idle", "send_event", "send_disconnect"}

InitPC == {"init", "init_request", "await_init", "spawn_watchdog",
           "store_watchdog", "send_init", "select", "fail", "join"}
RemovePC == {"cleanup", "remove_connections", "remove_runtime_ids",
             "remove_namespace_ids"}
RemovedPC == {"abort_watchdog", "cancel",
              "take_on_close", "on_close", "store_closed", "done"}
DriverPC == InitPC \cup RemovePC \cup RemovedPC

InsertPC == {"insert_connections", "insert_runtime_ids",
             "insert_namespace_ids"}
ReaderPC == InsertPC \cup
            {"next", "abort_watchdog", "init_response", "activate",
             "middleware", "ensure_activating", "on_connect", "ready",
             "send_ready", "on_ready", "done"}

\* The reader can be dropped by an abort only where it awaits.
ReadAwaits == {"next", "abort_watchdog", "init_response", "middleware",
               "on_connect", "send_ready"}

TaskTypeOK ==
  /\ state \in ConnectionState
  /\ driver \in DriverPC
  /\ endedBy \in {"nobody", "reader", "writer", "init"}
  /\ reader \in ReaderPC
  /\ watchdog \in {"none", "sleep", "check", "done"}
  /\ registered \subseteq Registries
  /\ tasks \subseteq {"on_ready", "event"}

FlagTypeOK ==
  /\ readAborted \in BOOLEAN /\ timeoutTask \in BOOLEAN /\ exposed \in BOOLEAN
  /\ onClose \in BOOLEAN /\ cancelled \in BOOLEAN

ChannelTypeOK ==
  /\ chan \in Seq(Message) /\ Len(chan) <= Capacity
  /\ writer \in {"running", "done"}
  /\ writing \in Message \cup {"none"}
  /\ writeAborted \in BOOLEAN
  /\ sent \subseteq Milestones

CallTypeOK ==
  /\ closing \in [CloseCallers -> ClosePC]
  /\ emitting \in [Emitters -> EmitPC]

\* Every variable has its type, and the channel never holds more than its
\* capacity: no producer overfills message_tx.
TypeOK == TaskTypeOK /\ FlagTypeOK /\ ChannelTypeOK /\ CallTypeOK

Init ==
  /\ state = "Created"
  /\ driver = "init" /\ endedBy = "nobody"
  /\ reader = "next" /\ readAborted = FALSE
  /\ chan = <<>> /\ writer = "running" /\ writing = "none"
  /\ writeAborted = FALSE /\ sent = {}
  /\ watchdog = "none" /\ timeoutTask = FALSE
  /\ registered = {}
  /\ exposed = FALSE
  /\ closing = [c \in CloseCallers |-> "idle"]
  /\ emitting = [e \in Emitters |-> "idle"]
  /\ onClose = FALSE
  /\ cancelled = FALSE /\ tasks = {}

-----------------------------------------------------------------------------
(***************************************************************************)
(* The channel.  message_rx lives inside the writer task: once that task   *)
(* is gone the channel is closed and what it still held is dropped.        *)
(***************************************************************************)
HasRoom == writer = "running" /\ Len(chan) < Capacity

\* message_tx.send(m).await ends: with Ok once there is room, or with Err.
Send(m) ==
  HasRoom /\ chan' = Append(chan, m) /\ UNCHANGED <<writer, writing, writeAborted, sent>>
SendFails == writer = "done" /\ UNCHANGED writeVars

\* Mutant: the capacity is not respected.
TrySendUnbounded(m) ==
  /\ chan' = IF writer = "running" THEN Append(chan, m) ELSE chan
  /\ UNCHANGED <<writer, writing, writeAborted, sent>>

\* message_tx.try_send(m): the message is dropped when there is no room.
TrySend(m) ==
  /\ chan' = IF HasRoom THEN Append(chan, m) ELSE chan
  /\ UNCHANGED <<writer, writing, writeAborted, sent>>

WriterOnly ==
  UNCHANGED <<state, driverVars, readVars, writeAborted, watchVars, registered,
              callVars, taskVars>>

WriteRecv ==
  /\ writer = "running" /\ writing = "none" /\ chan # <<>>
  /\ writing' = Head(chan) /\ chan' = Tail(chan)
  /\ WriterOnly /\ UNCHANGED <<writer, sent>>

WriteEnd == writer' = "done" /\ chan' = <<>> /\ writing' = "none" /\ WriterOnly

\* Mutant: the task goes on after a Close frame.
WriteSendNoBreak ==
  /\ writing # "none"
  /\ sent' = sent \cup ({writing} \cap Milestones) /\ writing' = "none"
  /\ WriterOnly /\ UNCHANGED <<chan, writer>>

\* ws_stream_writer.send succeeds; after a Close frame the task ends.
WriteSend ==
  /\ writing # "none"
  /\ sent' = sent \cup ({writing} \cap Milestones)
  /\ IF writing = "Close" THEN WriteEnd
     ELSE writing' = "none" /\ WriterOnly /\ UNCHANGED <<chan, writer>>

\* ws_stream_writer.send fails: the peer is gone.
WriteFails == writing # "none" /\ WriteEnd /\ UNCHANGED sent

\* The abort reaches the writer, which is always near an await point.
WriteStops == writeAborted /\ writer = "running" /\ WriteEnd /\ UNCHANGED sent

-----------------------------------------------------------------------------
(***************************************************************************)
(* The driver: init().                                                     *)
(***************************************************************************)
DriverOnly ==
  UNCHANGED <<readVars, writeVars, watchVars, registered, closing, emitting,
              onClose, taskVars>>

\* state.ensure(Created), then the init-request handler if there is one.
DriverInit ==
  /\ driver = "init"
  /\ driver' = IF state # "Created" THEN "fail"
               ELSE IF "init_request" \in Configured THEN "init_request"
               ELSE "await_init"
  /\ exposed' = (exposed \/ driver' = "init_request")
  /\ DriverOnly /\ UNCHANGED <<state, endedBy>>

\* The handler returns, fails, or is cut off by its timeout.
DriverInitRequest ==
  /\ driver = "init_request"
  /\ driver' \in {"await_init", "fail"}
  /\ DriverOnly /\ UNCHANGED <<state, endedBy, exposed>>

\* try_transition(Created, AwaitingInit).
DriverAwaitInit ==
  /\ driver = "await_init"
  /\ IF state = "Created"
       THEN state' = "AwaitingInit" /\ driver' = "spawn_watchdog"
       ELSE state' = state /\ driver' = "fail"
  /\ DriverOnly /\ UNCHANGED <<endedBy, exposed>>

\* The watchdog runs from here on, ...
DriverSpawnWatchdog ==
  /\ driver = "spawn_watchdog" /\ driver' = "store_watchdog"
  /\ watchdog' = "sleep"
  /\ UNCHANGED <<state, endedBy, readVars, writeVars, timeoutTask, registered,
                 callVars, taskVars>>

\* ... its handle is stored once the lock of init_timeout_task is free.
DriverStoreWatchdog ==
  /\ driver = "store_watchdog" /\ driver' = "send_init"
  /\ timeoutTask' = TRUE
  /\ UNCHANGED <<state, endedBy, readVars, writeVars, watchdog, registered,
                 callVars, taskVars>>

DriverSendInit ==
  /\ driver = "send_init"
  /\ \/ Send("Init") /\ driver' = "select"
     \/ SendFails /\ driver' = "fail"
  /\ UNCHANGED <<state, endedBy, readVars, watchVars, registered, callVars, taskVars>>

(***************************************************************************)
(* The driver: what follows init().                                        *)
(***************************************************************************)
\* select!: the first stream task to end has the other one aborted.  The
\* aborted task is not joined: it may still be running.
DriverSelect ==
  /\ driver = "select" /\ driver' = "cleanup"
  /\ \/ reader = "done" /\ endedBy' = "reader" /\ writeAborted' = TRUE /\ UNCHANGED readAborted
     \/ writer = "done" /\ endedBy' = "writer" /\ readAborted' = TRUE /\ UNCHANGED writeAborted
  /\ UNCHANGED <<state, reader, chan, writer, writing, sent, watchVars, registered,
                 callVars, taskVars>>

\* init() failed: abort the reader and call close().
DriverFail ==
  /\ driver = "fail" /\ driver' = "join"
  /\ endedBy' = "init" /\ readAborted' = TRUE
  /\ closing' = [closing EXCEPT !["driver"] = "get"]
  /\ UNCHANGED <<state, reader, writeVars, watchVars, registered, exposed,
                 emitting, onClose, taskVars>>

\* Mutant: only the writer is joined.
DriverJoinWriter ==
  /\ driver = "join" /\ driver' = "cleanup"
  /\ closing["driver"] = "done" /\ writer = "done"
  /\ DriverOnly /\ UNCHANGED <<state, endedBy, exposed>>

\* join!(read_ws_stream_task, write_ws_stream_task), after close().
DriverJoin ==
  /\ driver = "join" /\ driver' = "cleanup"
  /\ closing["driver"] = "done" /\ reader = "done" /\ writer = "done"
  /\ DriverOnly /\ UNCHANGED <<state, endedBy, exposed>>

(***************************************************************************)
(* The driver: cleanup().                                                  *)
(***************************************************************************)
CleanupClosing ==
  /\ driver = "cleanup" /\ driver' = "remove_connections"
  /\ state' = "Closing"
  /\ DriverOnly /\ UNCHANGED <<endedBy, exposed>>

\* remove_connection(id): one registry after the other.
RemoveFrom(registry, from, to) ==
  /\ driver = from /\ driver' = to
  /\ registered' = registered \ {registry}
  /\ UNCHANGED <<state, endedBy, readVars, writeVars, watchVars, callVars, taskVars>>

CleanupRemoveConnection ==
  \/ RemoveFrom("connections", "remove_connections", "remove_runtime_ids")
  \/ RemoveFrom("runtime_ids", "remove_runtime_ids", "remove_namespace_ids")
  \/ RemoveFrom("namespace_ids", "remove_namespace_ids", "abort_watchdog")

\* abort_locked_task(&init_timeout_task): take the handle, abort the task.
\* Only a sleeping watchdog can be stopped; one that woke runs to its end.
AbortLockedTask ==
  /\ timeoutTask' = FALSE
  /\ watchdog' = IF timeoutTask /\ watchdog = "sleep" THEN "done" ELSE watchdog

CleanupAbortWatchdog ==
  /\ driver = "abort_watchdog" /\ driver' = "cancel"
  /\ AbortLockedTask
  /\ UNCHANGED <<state, endedBy, readVars, writeVars, registered, callVars, taskVars>>

\* Mutant: the token is not cancelled.
CleanupNoCancel ==
  /\ driver = "cancel" /\ driver' = "take_on_close"
  /\ DriverOnly /\ UNCHANGED <<state, endedBy, exposed>>

CleanupCancel ==
  /\ driver = "cancel" /\ driver' = "take_on_close"
  /\ cancelled' = TRUE
  /\ UNCHANGED <<state, endedBy, readVars, writeVars, watchVars, registered,
                 callVars, tasks>>

CleanupTakeOnClose ==
  /\ driver = "take_on_close"
  /\ driver' = IF onClose THEN "on_close" ELSE "store_closed"
  /\ onClose' = FALSE
  /\ UNCHANGED <<state, endedBy, readVars, writeVars, watchVars, registered,
                 exposed, closing, emitting, taskVars>>

\* The handler ends, or its timeout cuts it off.
CleanupOnClose ==
  /\ driver = "on_close" /\ driver' = "store_closed"
  /\ DriverOnly /\ UNCHANGED <<state, endedBy, exposed>>

CleanupClosed ==
  /\ driver = "store_closed" /\ driver' = "done"
  /\ state' = "Closed"
  /\ DriverOnly /\ UNCHANGED <<endedBy, exposed>>

-----------------------------------------------------------------------------
(***************************************************************************)
(* The reader.  Frames arrive in any order: the peer is not constrained.   *)
(* Heartbeats, ping and pong, Disconnect and Ready packets, and events     *)
(* before Ready change nothing.                                            *)
(***************************************************************************)
\* The on_ready handler is only spawned (ReadOnReady); the others are awaited
\* where the reader stands.
ReaderOnly ==
  /\ UNCHANGED <<driverVars, readAborted, closing, emitting, onClose, cancelled>>
  /\ exposed' = (exposed \/ reader' \in Handlers \ {"on_ready"})

\* The step that follows, given which optional handlers are configured.
AfterMiddleware == IF "on_connect" \in Configured THEN "on_connect" ELSE "ready"
AfterActivate == IF "middleware" \in Configured THEN "middleware" ELSE AfterMiddleware

\* A Close frame, a socket error, the end of the stream, or a packet that
\* does not decode.
ReadEnd ==
  /\ reader = "next" /\ reader' = "done"
  /\ ReaderOnly /\ UNCHANGED <<state, writeVars, watchVars, registered, tasks>>

\* An Event packet of a Ready connection starts its handlers; without a key
\* it is an error.
ReadEvent ==
  /\ reader = "next" /\ state = "Ready"
  /\ \/ tasks' = tasks \cup {"event"} /\ reader' = reader
     \/ tasks' = tasks /\ reader' = "done"
  /\ ReaderOnly /\ UNCHANGED <<state, writeVars, watchVars, registered>>

\* try_transition(from, to), the reader going on at `next` or failing.
ReadTransition(from, to, next) ==
  /\ IF state = from THEN state' = to /\ reader' = next
                     ELSE state' = state /\ reader' = "done"
  /\ ReaderOnly /\ UNCHANGED <<writeVars, watchVars, registered, tasks>>

\* An Init packet: only AwaitingInit may become Initiating.
ReadInit ==
  reader = "next" /\ ReadTransition("AwaitingInit", "Initiating", "abort_watchdog")

ReadAbortWatchdog ==
  /\ reader = "abort_watchdog"
  /\ AbortLockedTask
  /\ reader' = IF "init_response" \in Configured THEN "init_response" ELSE "activate"
  /\ ReaderOnly /\ UNCHANGED <<state, writeVars, registered, tasks>>

ReadActivate ==
  reader = "activate" /\ ReadTransition("Initiating", "Activating", AfterActivate)

\* Mutant: a plain store of Ready.
ReadReadyStore ==
  /\ reader = "ready" /\ state' = "Ready" /\ reader' = "insert_connections"
  /\ ReaderOnly /\ UNCHANGED <<writeVars, watchVars, registered, tasks>>

\* Mutant: the Ready packet goes out before the connection is registered.
ReadReadyEarly ==
  reader = "ready" /\ ReadTransition("Activating", "Ready", "send_ready")

ReadReady ==
  reader = "ready" /\ ReadTransition("Activating", "Ready", "insert_connections")

\* A handler awaited under a timeout: it returns, or fails and ends the task.
ReadHandler(at, next) ==
  /\ reader = at /\ reader' \in {next, "done"}
  /\ ReaderOnly /\ UNCHANGED <<state, writeVars, watchVars, registered, tasks>>

ReadInitResponse == ReadHandler("init_response", "activate")
ReadMiddleware   == ReadHandler("middleware", "ensure_activating")
ReadOnConnect    == ReadHandler("on_connect", "ready")

ReadEnsureActivating ==
  /\ reader = "ensure_activating"
  /\ reader' = IF state = "Activating" THEN AfterMiddleware ELSE "done"
  /\ ReaderOnly /\ UNCHANGED <<state, writeVars, watchVars, registered, tasks>>

\* insert_connection(self): one registry after the other.
InsertInto(registry, from, to) ==
  /\ reader = from /\ reader' = to
  /\ registered' = registered \cup {registry}
  /\ ReaderOnly /\ UNCHANGED <<state, writeVars, watchVars, tasks>>

ReadInsertConnection ==
  \/ InsertInto("connections", "insert_connections", "insert_runtime_ids")
  \/ InsertInto("runtime_ids", "insert_runtime_ids", "insert_namespace_ids")
  \/ InsertInto("namespace_ids", "insert_namespace_ids", "send_ready")

ReadSendReady ==
  /\ reader = "send_ready"
  /\ \/ Send("Ready") /\ reader' = "on_ready"
     \/ SendFails /\ reader' = "done"
  /\ ReaderOnly /\ UNCHANGED <<state, watchVars, registered, tasks>>

\* spawn_task(on_ready_handler(..)): a detached task.
ReadOnReady ==
  /\ reader = "on_ready" /\ reader' = "next"
  /\ tasks' = tasks \cup (Configured \cap {"on_ready"})
  /\ UNCHANGED <<state, driverVars, readAborted, writeVars, watchVars, registered,
                 closing, emitting, onClose, cancelled>>
  /\ exposed' = (exposed \/ "on_ready" \in Configured)

\* The abort reaches the reader at an await point.
ReadStops ==
  /\ readAborted /\ reader \in ReadAwaits /\ reader' = "done"
  /\ ReaderOnly /\ UNCHANGED <<state, writeVars, watchVars, registered, tasks>>

-----------------------------------------------------------------------------
(***************************************************************************)
(* The init-timeout watchdog.                                              *)
(***************************************************************************)
WatchdogOnly ==
  UNCHANGED <<state, driverVars, readVars, writeVars, timeoutTask, registered,
              exposed, emitting, onClose, taskVars>>

WatchdogWakes ==
  watchdog = "sleep" /\ watchdog' = "check" /\ WatchdogOnly /\ UNCHANGED closing

\* Mutant: the watchdog looks for the wrong state.
WatchdogChecksInitiating ==
  /\ watchdog = "check" /\ watchdog' = "done"
  /\ closing' = IF state = "Initiating"
                  THEN [closing EXCEPT !["watchdog"] = "get"] ELSE closing
  /\ WatchdogOnly

WatchdogChecks ==
  /\ watchdog = "check" /\ watchdog' = "done"
  /\ closing' = IF state = "AwaitingInit"
                  THEN [closing EXCEPT !["watchdog"] = "get"] ELSE closing
  /\ WatchdogOnly

(***************************************************************************)
(* close(): read the state, store Closing, try to queue a Close frame.     *)
(***************************************************************************)
CloserOnly ==
  UNCHANGED <<driverVars, readVars, watchVars, registered, exposed, emitting,
              onClose, taskVars>>

CloseGet(c) ==
  /\ closing[c] = "get"
  /\ closing' = [closing EXCEPT ![c] = IF state \in Ended THEN "done" ELSE "store"]
  /\ CloserOnly /\ UNCHANGED <<state, writeVars>>

CloseStore(c) ==
  /\ closing[c] = "store"
  /\ closing' = [closing EXCEPT ![c] = "try_send"]
  /\ state' = "Closing"
  /\ CloserOnly /\ UNCHANGED writeVars

CloseTrySend(c) ==
  /\ closing[c] = "try_send"
  /\ closing' = [closing EXCEPT ![c] = "done"]
  /\ TrySend("Close")
  /\ CloserOnly /\ UNCHANGED state

(***************************************************************************)
(* Application tasks.  A connection is reachable once a handler was given  *)
(* it; a broadcast finds it through the namespace's registries.            *)
(***************************************************************************)
Broadcastable == {"connections", "namespace_ids"} \subseteq registered

\* disconnect(): send a Disconnect packet, whatever its fate, then close().
Disconnect(c) ==
  /\ closing[c] = "idle" /\ exposed
  /\ closing' = [closing EXCEPT ![c] = "send_disconnect"]
  /\ CloserOnly /\ UNCHANGED <<state, writeVars>>

DisconnectSend(c) ==
  /\ closing[c] = "send_disconnect"
  /\ closing' = [closing EXCEPT ![c] = "get"]
  /\ Send("Disconnect") \/ SendFails
  /\ CloserOnly /\ UNCHANGED state

\* The close of a broadcast (close_all).
CloseAll(c) ==
  /\ closing[c] = "idle" /\ Broadcastable
  /\ closing' = [closing EXCEPT ![c] = "get"]
  /\ CloserOnly /\ UNCHANGED <<state, writeVars>>

EmitterOnly ==
  UNCHANGED <<state, driverVars, readVars, watchVars, registered, exposed,
              closing, onClose, taskVars>>

\* emit() and the emit of a broadcast: only a Ready connection passes.
Emit(e) ==
  /\ emitting[e] = "idle" /\ (exposed \/ Broadcastable) /\ state = "Ready"
  /\ emitting' = [emitting EXCEPT ![e] = "send_event"]
  /\ EmitterOnly /\ UNCHANGED writeVars

\* The disconnect of a broadcast sends the packet without looking at `state`.
DisconnectAll(e) ==
  /\ emitting[e] = "idle" /\ Broadcastable
  /\ emitting' = [emitting EXCEPT ![e] = "send_disconnect"]
  /\ EmitterOnly /\ UNCHANGED writeVars

EmitSend(e) ==
  /\ emitting[e] \in {"send_event", "send_disconnect"}
  /\ emitting' = [emitting EXCEPT ![e] = "idle"]
  /\ \/ Send(IF emitting[e] = "send_event" THEN "Event" ELSE "Disconnect")
     \/ SendFails
  /\ EmitterOnly

\* on_close(handler): waits for the lock, which cleanup holds while it runs
\* the handler it took.
OnClose ==
  /\ exposed /\ driver # "on_close"
  /\ onClose' = TRUE
  /\ UNCHANGED <<state, driverVars, readVars, writeVars, watchVars, registered,
                 exposed, closing, emitting, taskVars>>

\* A detached task ends when its handler returns, ...
TaskReturns ==
  /\ \E t \in tasks : tasks' = tasks \ {t}
  /\ UNCHANGED <<state, driverVars, readVars, writeVars, watchVars, registered,
                 callVars, cancelled>>

\* ... or is dropped once the cancel token is cancelled.
TaskCancelled == cancelled /\ TaskReturns

-----------------------------------------------------------------------------
(***************************************************************************)
(* The specification.                                                      *)
(***************************************************************************)
WriterStep == WriteRecv \/ WriteSend \/ WriteFails \/ WriteStops

CleanupStep ==
  \/ CleanupClosing \/ CleanupRemoveConnection \/ CleanupAbortWatchdog
  \/ CleanupCancel \/ CleanupTakeOnClose \/ CleanupOnClose \/ CleanupClosed

DriverStep ==
  \/ DriverInit \/ DriverInitRequest \/ DriverAwaitInit \/ DriverSpawnWatchdog
  \/ DriverStoreWatchdog \/ DriverSendInit \/ DriverSelect \/ DriverFail
  \/ DriverJoin \/ CleanupStep

\* What the peer makes the reader do.
ReadFrame == ReadEnd \/ ReadEvent \/ ReadInit

\* What the reader does by itself with an Init packet it accepted.
HandleInitPacket ==
  \/ ReadAbortWatchdog \/ ReadInitResponse \/ ReadActivate \/ ReadMiddleware
  \/ ReadEnsureActivating \/ ReadOnConnect \/ ReadReady \/ ReadInsertConnection
  \/ ReadSendReady \/ ReadOnReady

WatchdogStep == WatchdogWakes \/ WatchdogChecks

CloseStep(c) == CloseGet(c) \/ CloseStore(c) \/ CloseTrySend(c)

Next ==
  \/ WriterStep
  \/ DriverStep
  \/ ReadFrame \/ HandleInitPacket \/ ReadStops
  \/ WatchdogStep
  \/ \E c \in CloseCallers : CloseStep(c)
  \/ \E c \in Closers : Disconnect(c) \/ DisconnectSend(c) \/ CloseAll(c)
  \/ \E e \in Emitters : Emit(e) \/ DisconnectAll(e) \/ EmitSend(e)
  \/ OnClose
  \/ TaskReturns

Spec == Init /\ [][Next]_vars

(***************************************************************************)
(* Fairness.  Tokio keeps polling a task that can run, every handler is    *)
(* awaited under a timeout, and timers fire.  Nothing is assumed of the    *)
(* peer, not even that it reads: a socket write has no timeout, so it may  *)
(* take for ever.  Nothing is assumed of the application's calls, or of a  *)
(* detached handler that nobody cancels.                                   *)
(***************************************************************************)
Fairness ==
  /\ WF_vars(DriverStep \/ CloseStep("driver"))
  /\ WF_vars(HandleInitPacket \/ ReadStops)
  /\ WF_vars(WriteRecv \/ WriteStops)
  /\ WF_vars(WatchdogStep \/ CloseStep("watchdog"))
  /\ \A c \in Closers : WF_vars(CloseStep(c))
  /\ WF_vars(TaskCancelled)

FairSpec == Spec /\ Fairness

-----------------------------------------------------------------------------
(***************************************************************************)
(* Properties.                                                             *)
(***************************************************************************)
\* The connection is gone from the registries for good: cleanup has been
\* through remove_connection.
Removed == driver \in RemovedPC

\* The Ready packet has been accepted by the channel.
ReadyQueued ==
  \/ \E i \in DOMAIN chan : chan[i] = "Ready"
  \/ "Ready" \in sent
  \/ writing = "Ready"

\* A closing connection never comes back to life: whatever order close(),
\* the watchdog, cleanup() and the reader's handshake run in, no step takes
\* `state` out of Closing/Closed (the compare-and-swaps of
\* handle_init_packet and init).
NoResurrection == [][(state \in Ended) => (state' \in Ended)]_vars

\* The peer cannot learn that it is ready before the namespace can reach it:
\* while cleanup has not begun, a queued or sent Ready packet means that all
\* three registries hold the connection (insert_connection before the send
\* of handle_init_packet).
ReadyPacketMeansRegistered ==
  ReadyQueued /\ driver \in InitPC => registered = Registries

\* If the reader ended first, or init() failed and both tasks were joined,
\* no registry holds the connection once cleanup has removed it.
RemovedStaysRemoved ==
  Removed /\ endedBy \in {"reader", "init"} => registered = {}

(***************************************************************************)
(* The inductive invariant behind the two: how far insert_connection and   *)
(* remove_connection have come, and who is still running.                  *)
(***************************************************************************)
InsertProgress ==
  driver \in InitPC =>
    /\ reader = "insert_runtime_ids" => "connections" \in registered
    /\ reader = "insert_namespace_ids" => {"connections", "runtime_ids"} \subseteq registered
    /\ reader \in {"send_ready", "on_ready"} => registered = Registries

ReaderGone == driver \notin InitPC /\ endedBy \in {"reader", "init"} => reader = "done"

RemoveProgress ==
  endedBy \in {"reader", "init"} =>
    /\ driver = "remove_runtime_ids" => "connections" \notin registered
    /\ driver = "remove_namespace_ids" =>
         registered \cap {"connections", "runtime_ids"} = {}

RegistrationInv ==
  /\ InsertProgress /\ ReaderGone /\ RemoveProgress
  /\ ReadyPacketMeansRegistered /\ RemovedStaysRemoved

(***************************************************************************)
(* What HandshakeResolves rests on: nothing in the handshake waits for the *)
(* peer without a timer.                                                   *)
(***************************************************************************)
\* While the connection waits for the Init packet the watchdog is about to be
\* spawned, asleep, looking at the state, or in its close(); once the packet
\* was accepted the reader is busy with it, or gone.
HandshakeGuarded ==
  /\ state = "AwaitingInit" => \/ driver = "spawn_watchdog"
                               \/ watchdog \in {"sleep", "check"}
                               \/ closing["watchdog"] \in {"get", "store"}
  /\ state \in {"Initiating", "Activating"} => reader # "next"

\* What makes it inductive: the reader has not accepted a packet while the
\* state is AwaitingInit, so nobody but the watchdog itself ends the watchdog
\* then; a close() past its store, and cleanup(), find or leave the state ended.
GuardInv ==
  /\ HandshakeGuarded
  /\ state = "Created" => watchdog = "none" /\ driver # "spawn_watchdog"
  /\ driver = "spawn_watchdog" => watchdog = "none"
  /\ state \in {"Created", "AwaitingInit"} => reader \in {"next", "done"}
  /\ watchdog \in {"none", "sleep", "check"} => closing["watchdog"] = "idle"
  /\ closing["watchdog"] \in {"try_send", "done"} => state \in Ended
  /\ driver \in (RemovePC \ {"cleanup"}) \cup RemovedPC => state \in Ended

\* What the comment "Remove connection from namespace" of cleanup() promises
\* without that condition: a finished connection is in no registry.
NoGhostConnection == driver = "done" => registered = {}

\* A connection that starts its handshake becomes Ready or is told to close in
\* the end, whatever the peer does, and even if it stops reading: the handler
\* timeouts and the init-timeout watchdog see to that.
HandshakeResolves == driver = "init" ~> state \in {"Ready"} \cup Ended

\* The Close frame of every close() was dropped: it is nowhere.
CloseDropped ==
  /\ \A i \in DOMAIN chan : chan[i] # "Close"
  /\ writing # "Close" /\ "Close" \notin sent

\* A connection told to close is cleaned up, unless the peer never lets a
\* socket write end (send has no timeout) or the channel was full when close()
\* tried to queue its frame (try_send, which nobody repeats).  Nothing else in
\* the driver, in the two stream tasks or in cleanup() can keep it Closing.
\* (Once cleanup() is over a close() that had read an earlier state may still
\* store Closing over Closed: so the driver is looked at, too.)
ClosingWaitsOnlyForSocket ==
  <>[](state = "Closing" /\ driver # "done") => <>[](writing # "none") \/ <>[]CloseDropped

\* Every close() that set the state to Closing ends the connection.
ClosingEndsConnection == state = "Closing" ~> driver = "done"

\* No detached handler task outlives the connection: cleanup cancels the
\* token, and a task spawned after that is dropped as well.
DetachedTasksEnd == driver = "done" ~> [](tasks = {})

=============================================================================
