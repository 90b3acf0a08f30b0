----------------------------- MODULE ClientSession -----------------------------
(***************************************************************************)
(* One session of a wsio-client, from the connected socket to the end of   *)
(* cleanup (session.rs, and run_connection of runtime.rs after the         *)
(* websocket is connected).                                                *)
(*                                                                         *)
(* The tasks that work on the session at the same time are the driver      *)
(* (run_connection), the reader and the writer of the socket, the watchdog *)
(* that waits for the Init packet and the one that waits for the Ready     *)
(* packet, the ping task, and the runtime's send-event-message task.  A    *)
(* step is one access to shared state; an aborted task stops at an await.  *)
(***************************************************************************)
EXTENDS Integers, Sequences, FiniteSets

CONSTANTS
  Capacity,    \* size of the message channel
  Configured,  \* the optional handlers that are configured
  MaxPings     \* bound on the heartbeats

ASSUME SizesAssumption == Capacity \in Nat \ {0} /\ MaxPings \in Nat
ASSUME ConfiguredAssumption == Configured \subseteq {"init", "on_session_ready", "on_session_close"}

VARIABLES
  state,         \* SessionState
  driver,        \* program counter of run_connection
  cancelled,     \* a disconnect() has cancelled the runtime's token
  reader,        \* program counter of read_ws_stream_task
  readAborted,   \* read_ws_stream_task.abort() was called
  chan,          \* the messages in the channel
  writer,        \* write_ws_stream_task: "none", "running" or "done"
  writing,       \* the message the writer is sending, or "none"
  writeAborted,  \* write_ws_stream_task.abort() was called
  answered,      \* the answer to the Init packet was handed to the socket
  watch,         \* program counters of the two watchdogs
  ping,          \* program counter of the ping task
  pings,         \* heartbeats so far
  emitting,      \* the send-event-message task is inside send_message
  closing,       \* program counter of every close() caller
  dropped,       \* the session's own cancel token is cancelled
  task           \* the on_session_ready task is running

readVars  == <<reader, readAborted>>
writeVars == <<chan, writer, writing, writeAborted, answered>>
bgVars    == <<watch, ping, pings>>
callVars  == <<cancelled, emitting, closing>>
taskVars  == <<dropped, task>>
vars == <<state, driver, readVars, writeVars, bgVars, callVars, taskVars>>

-----------------------------------------------------------------------------
SessionState == {"Created", "AwaitingInit", "Initiating", "AwaitingReady", "Ready",
                 "Closing", "Closed"}
Ended == {"Closing", "Closed"}
Message == {"Init", "Event", "Ping", "Close"}

Watchdogs == {"init", "ready"}
CloseCallers == Watchdogs \cup {"ping", "driver"}

DriverPC == {"init", "init_watchdog", "ping", "spawn", "select", "graceful", "await_read",
             "await_write", "panicked", "cleanup", "abort_init", "abort_ping",
             "abort_ready", "cancel", "on_close", "store_closed", "done"}
ReaderPC == {"none", "next", "abort_init", "init_handler", "await_ready", "spawn_watchdog",
             "send_init", "abort_ready", "on_session_ready", "done"}
ReadAwaits == {"next", "abort_init", "init_handler", "send_init",
               "abort_ready"}

\* Every variable has its type, and the channel never holds more than its
\* capacity.
TypeOK ==
  /\ state \in SessionState /\ driver \in DriverPC /\ reader \in ReaderPC
  /\ cancelled \in BOOLEAN /\ readAborted \in BOOLEAN
  /\ chan \in Seq(Message) /\ Len(chan) <= Capacity
  /\ writer \in {"none", "running", "done"} /\ writing \in Message \cup {"none"}
  /\ writeAborted \in BOOLEAN /\ answered \in BOOLEAN
  /\ watch \in [Watchdogs -> {"none", "sleep", "done"}]
  /\ ping \in {"none", "sleep", "send", "close", "last_close", "done"} /\ pings \in 0..MaxPings
  /\ emitting \in BOOLEAN
  /\ closing \in [CloseCallers -> {"idle", "get", "store", "try_send"}]
  /\ dropped \in BOOLEAN /\ task \in BOOLEAN

Init ==
  /\ state = "Created" /\ driver = "init"
  /\ cancelled = FALSE
  /\ reader = "none" /\ readAborted = FALSE
  /\ chan = <<>> /\ writer = "none" /\ writing = "none" /\ writeAborted = FALSE /\ answered = FALSE
  /\ watch = [w \in Watchdogs |-> "none"] /\ ping = "none" /\ pings = 0
  /\ emitting = FALSE /\ closing = [c \in CloseCallers |-> "idle"]
  /\ dropped = FALSE /\ task = FALSE

-----------------------------------------------------------------------------
(***************************************************************************)
(* The channel and the writer.  message_rx belongs to run_connection and   *)
(* then to the writer task: the channel is closed once that task is gone.  *)
(***************************************************************************)
HasRoom == writer # "done" /\ Len(chan) < Capacity
ChanOnly == UNCHANGED <<writer, writing, writeAborted, answered>>

Send(m) == HasRoom /\ chan' = Append(chan, m) /\ ChanOnly
SendFails == writer = "done" /\ UNCHANGED writeVars

\* Mutant: the capacity is not respected.
TrySendUnbounded(m) ==
  chan' = (IF writer # "done" THEN Append(chan, m) ELSE chan) /\ ChanOnly

TrySend(m) == chan' = (IF HasRoom THEN Append(chan, m) ELSE chan) /\ ChanOnly

WriterOnly == UNCHANGED <<state, driver, readVars, writeAborted, bgVars, callVars, taskVars>>

WriteRecv ==
  /\ writer = "running" /\ writing = "none" /\ chan # <<>>
  /\ writing' = Head(chan) /\ chan' = Tail(chan)
  /\ WriterOnly /\ UNCHANGED <<writer, answered>>

WriteEnd == writer' = "done" /\ chan' = <<>> /\ writing' = "none" /\ WriterOnly

\* ws_stream_writer.send succeeds; after a Close frame the task ends.
WriteSend ==
  /\ writing # "none" /\ answered' = (answered \/ writing = "Init")
  /\ IF writing = "Close" THEN WriteEnd
     ELSE writing' = "none" /\ WriterOnly /\ UNCHANGED <<chan, writer>>

WriteFails == writing # "none" /\ WriteEnd /\ UNCHANGED answered
WriteStops == writeAborted /\ writer = "running" /\ WriteEnd /\ UNCHANGED answered

-----------------------------------------------------------------------------
(***************************************************************************)
(* The driver: session.init(), the stream tasks, and the outer select!.    *)
(***************************************************************************)
DriverOnly == UNCHANGED <<readVars, writeVars, callVars, taskVars>>

DriverInit ==
  /\ driver = "init" /\ driver' = "init_watchdog" /\ state' = "AwaitingInit"
  /\ DriverOnly /\ UNCHANGED bgVars

DriverInitWatchdog ==
  /\ driver = "init_watchdog" /\ driver' = "ping"
  /\ watch' = [watch EXCEPT !["init"] = "sleep"]
  /\ DriverOnly /\ UNCHANGED <<state, ping, pings>>

DriverPing ==
  /\ driver = "ping" /\ driver' = "spawn"
  /\ ping' = "sleep"
  /\ DriverOnly /\ UNCHANGED <<state, watch, pings>>

DriverSpawn ==
  /\ driver = "spawn" /\ driver' = "select"
  /\ reader' = "next" /\ writer' = "running"
  /\ UNCHANGED <<state, readAborted, chan, writing, writeAborted, answered, bgVars, callVars,
                 taskVars>>

\* Mutant: only the end of the writer is noticed.
WriterEnds == writer = "done" /\ readAborted' = TRUE /\ UNCHANGED writeAborted

\* One stream task is done: the other one is aborted, not joined.
StreamEnds ==
  \/ reader = "done" /\ writeAborted' = TRUE /\ UNCHANGED readAborted
  \/ writer = "done" /\ readAborted' = TRUE /\ UNCHANGED writeAborted

SelectOnly == UNCHANGED <<state, reader, chan, writer, writing, answered, bgVars, taskVars>>

DriverStreamEnds ==
  /\ driver = "select" /\ driver' = "cleanup" /\ StreamEnds
  /\ SelectOnly /\ UNCHANGED callVars

\* The runtime disconnects: close() and a graceful shutdown.
DriverCancelled ==
  /\ driver = "select" /\ cancelled /\ driver' = "graceful"
  /\ closing' = [closing EXCEPT !["driver"] = "get"]
  /\ SelectOnly /\ UNCHANGED <<readAborted, writeAborted, cancelled, emitting>>

\* A stream task ends in time.  Its handle's output is gone: awaiting the
\* handle again panics, and run_connection is never resumed.
DriverGraceful ==
  /\ driver = "graceful" /\ closing["driver"] = "idle" /\ driver' = "panicked" /\ StreamEnds
  /\ SelectOnly /\ UNCHANGED callVars

\* Mutant: the graceful shutdown is not bounded.
DriverGracefulUnbounded == driver = "graceful" /\ FALSE /\ UNCHANGED vars

\* disconnect_timeout: both tasks are aborted and joined.
DriverGracefulTimeout ==
  /\ driver = "graceful" /\ closing["driver"] = "idle" /\ driver' = "await_read"
  /\ readAborted' = TRUE /\ writeAborted' = TRUE
  /\ SelectOnly /\ UNCHANGED callVars

DriverAwait ==
  /\ \/ driver = "await_read" /\ reader = "done" /\ driver' = "await_write"
     \/ driver = "await_write" /\ writer = "done" /\ driver' = "cleanup"
  /\ DriverOnly /\ UNCHANGED <<state, bgVars>>

(***************************************************************************)
(* The driver: cleanup().                                                  *)
(***************************************************************************)
\* runtime.session.store(None) and cleanup()'s first store.
CleanupClosing ==
  /\ driver = "cleanup" /\ driver' = "abort_init" /\ state' = "Closing"
  /\ DriverOnly /\ UNCHANGED bgVars

\* abort_locked_task for a watchdog or the ping task: a task is stopped
\* where it awaits; in the middle of close() the ping task goes on to its next
\* sleep.
AbortLockedTask(t) ==
  /\ watch' = [w \in Watchdogs |-> IF w = t /\ watch[w] = "sleep" THEN "done" ELSE watch[w]]
  /\ ping' = IF t # "ping" THEN ping ELSE IF ping = "close" THEN "last_close" ELSE "done"
  /\ UNCHANGED pings

\* Mutant: the ping task is forgotten.
CleanupAbortWatchdogs ==
  /\ \/ driver = "abort_init" /\ driver' = "abort_ready" /\ AbortLockedTask("init")
     \/ driver = "abort_ready" /\ driver' = "cancel" /\ AbortLockedTask("ready")
  /\ DriverOnly /\ UNCHANGED state

CleanupAbort ==
  /\ \/ driver = "abort_init" /\ driver' = "abort_ping" /\ AbortLockedTask("init")
     \/ driver = "abort_ping" /\ driver' = "abort_ready" /\ AbortLockedTask("ping")
     \/ driver = "abort_ready" /\ driver' = "cancel" /\ AbortLockedTask("ready")
  /\ DriverOnly /\ UNCHANGED state

CleanupCancel ==
  /\ driver = "cancel" /\ dropped' = TRUE
  /\ driver' = IF "on_session_close" \in Configured THEN "on_close" ELSE "store_closed"
  /\ UNCHANGED <<state, readVars, writeVars, bgVars, callVars, task>>

\* The handler returns, or its timeout cuts it off.
CleanupOnClose ==
  /\ driver = "on_close" /\ driver' = "store_closed" /\ DriverOnly /\ UNCHANGED <<state, bgVars>>

CleanupClosed ==
  /\ driver = "store_closed" /\ driver' = "done" /\ state' = "Closed"
  /\ DriverOnly /\ UNCHANGED bgVars

-----------------------------------------------------------------------------
(***************************************************************************)
(* The reader.  The peer may send anything in any order.                   *)
(***************************************************************************)
ReaderOnly == UNCHANGED <<driver, readAborted, emitting, closing, dropped>>
ReadPlain == ReaderOnly /\ UNCHANGED <<state, writeVars, bgVars, cancelled, task>>

\* The stream ends, or a packet does not decode or lacks its key.
ReadEnd == reader = "next" /\ reader' = "done" /\ ReadPlain

\* An Event packet starts the event's handlers (EventRegistry) or, before
\* Ready, nothing; a Disconnect packet starts a detached disconnect(), whose delay
\* is that of the driver in noticing the token.
ReadEvent == reader = "next" /\ reader' = "next" /\ ReadPlain

ReadDisconnect ==
  /\ reader = "next" /\ reader' = "next" /\ cancelled' = TRUE
  /\ ReaderOnly /\ UNCHANGED <<state, writeVars, bgVars, task>>

ReadTransition(from, to, next) ==
  /\ IF state = from THEN state' = to /\ reader' = next ELSE state' = state /\ reader' = "done"
  /\ ReaderOnly /\ UNCHANGED <<writeVars, bgVars, cancelled, task>>

ReadInit == reader = "next" /\ ReadTransition("AwaitingInit", "Initiating", "abort_init")

ReadAbortInit ==
  /\ reader = "abort_init" /\ AbortLockedTask("init")
  /\ reader' = IF "init" \in Configured THEN "init_handler" ELSE "await_ready"
  /\ ReaderOnly /\ UNCHANGED <<state, writeVars, cancelled, task>>

\* The handler returns, or fails or times out and ends the task.
ReadInitHandler == reader = "init_handler" /\ reader' \in {"await_ready", "done"} /\ ReadPlain

ReadAwaitReady ==
  reader = "await_ready" /\ ReadTransition("Initiating", "AwaitingReady", "spawn_watchdog")

\* The watchdog is spawned and its handle stored.
ReadSpawnWatchdog ==
  /\ reader = "spawn_watchdog" /\ reader' = "send_init"
  /\ watch' = [watch EXCEPT !["ready"] = "sleep"]
  /\ ReaderOnly /\ UNCHANGED <<state, writeVars, ping, pings, cancelled, task>>

ReadSendInit ==
  /\ reader = "send_init"
  /\ (Send("Init") /\ reader' = "next") \/ (SendFails /\ reader' = "done")
  /\ ReaderOnly /\ UNCHANGED <<state, bgVars, cancelled, task>>

\* Mutant: a plain store of Ready.
ReadReadyStore ==
  /\ reader = "next" /\ state' = "Ready" /\ reader' = "abort_ready"
  /\ ReaderOnly /\ UNCHANGED <<writeVars, bgVars, cancelled, task>>

ReadReady == reader = "next" /\ ReadTransition("AwaitingReady", "Ready", "abort_ready")

\* The sender is notified (ClientRuntime) on the way.
ReadAbortReady ==
  /\ reader = "abort_ready" /\ AbortLockedTask("ready") /\ reader' = "on_session_ready"
  /\ ReaderOnly /\ UNCHANGED <<state, writeVars, cancelled, task>>

ReadOnSessionReady ==
  /\ reader = "on_session_ready" /\ reader' = "next"
  /\ task' = (task \/ "on_session_ready" \in Configured)
  /\ ReaderOnly /\ UNCHANGED <<state, writeVars, bgVars, cancelled>>

ReadStops == readAborted /\ reader \in ReadAwaits /\ reader' = "done" /\ ReadPlain

-----------------------------------------------------------------------------
(***************************************************************************)
(* The watchdogs, the ping task, close(), and the runtime.                 *)
(***************************************************************************)
BgOnly == UNCHANGED <<state, driver, readVars, cancelled, emitting, taskVars>>

Awaited(w) == IF w = "init" THEN "AwaitingInit" ELSE "AwaitingReady"

\* Mutant: both watchdogs wait for the Init packet.
WatchdogFiresForInit(w) ==
  /\ watch[w] = "sleep" /\ watch' = [watch EXCEPT ![w] = "done"]
  /\ closing' = IF state = "AwaitingInit" THEN [closing EXCEPT ![w] = "get"] ELSE closing
  /\ BgOnly /\ UNCHANGED <<writeVars, ping, pings>>

\* The sleep ends and the state is checked.  An abort between the two finds
\* the state changed already, so they are one step.
WatchdogFires(w) ==
  /\ watch[w] = "sleep" /\ watch' = [watch EXCEPT ![w] = "done"]
  /\ closing' = IF state = Awaited(w) THEN [closing EXCEPT ![w] = "get"] ELSE closing
  /\ BgOnly /\ UNCHANGED <<writeVars, ping, pings>>

PingWakes ==
  /\ ping = "sleep" /\ pings < MaxPings /\ ping' = "send" /\ pings' = pings + 1
  /\ BgOnly /\ UNCHANGED <<writeVars, watch, closing>>

\* send_message; when it fails the task closes the session and goes on.
PingSend ==
  /\ ping = "send"
  /\ \/ Send("Ping") /\ ping' = "sleep" /\ UNCHANGED closing
     \/ SendFails /\ ping' = "close" /\ closing' = [closing EXCEPT !["ping"] = "get"]
  /\ BgOnly /\ UNCHANGED <<watch, pings>>

\* Back to sleep, where an abort that came meanwhile ends it.
PingClosed ==
  /\ ping \in {"close", "last_close"} /\ closing["ping"] = "idle"
  /\ ping' = IF ping = "close" THEN "sleep" ELSE "done"
  /\ BgOnly /\ UNCHANGED <<writeVars, watch, pings, closing>>

CloserOnly == UNCHANGED <<driver, readVars, bgVars, cancelled, emitting, taskVars>>

CloseGet(c) ==
  /\ closing[c] = "get"
  /\ closing' = [closing EXCEPT ![c] = IF state \in Ended THEN "idle" ELSE "store"]
  /\ CloserOnly /\ UNCHANGED <<state, writeVars>>

CloseStore(c) ==
  /\ closing[c] = "store" /\ closing' = [closing EXCEPT ![c] = "try_send"]
  /\ state' = "Closing"
  /\ CloserOnly /\ UNCHANGED writeVars

CloseTrySend(c) ==
  /\ closing[c] = "try_send" /\ closing' = [closing EXCEPT ![c] = "idle"]
  /\ TrySend("Close")
  /\ CloserOnly /\ UNCHANGED state

RuntimeOnly == UNCHANGED <<state, driver, readVars, bgVars, closing, taskVars>>

\* runtime.disconnect() of the application: the token is cancelled.
Disconnect ==
  /\ ~ cancelled /\ cancelled' = TRUE
  /\ RuntimeOnly /\ UNCHANGED <<writeVars, emitting>>

\* Mutant: `state` is not looked at.
EmitAlways ==
  /\ ~ emitting /\ emitting' = TRUE
  /\ RuntimeOnly /\ UNCHANGED <<writeVars, cancelled>>

\* emit_event_message, called by the sender: only a Ready session passes.
Emit ==
  /\ ~ emitting /\ state = "Ready" /\ emitting' = TRUE
  /\ RuntimeOnly /\ UNCHANGED <<writeVars, cancelled>>

EmitSend ==
  /\ emitting /\ emitting' = FALSE /\ (Send("Event") \/ SendFails)
  /\ RuntimeOnly /\ UNCHANGED cancelled

\* disconnect() aborts the sender.
EmitStops ==
  /\ emitting /\ cancelled /\ emitting' = FALSE
  /\ RuntimeOnly /\ UNCHANGED <<writeVars, cancelled>>

TaskReturns ==
  /\ task /\ task' = FALSE
  /\ UNCHANGED <<state, driver, readVars, writeVars, bgVars, callVars, dropped>>

TaskDropped == dropped /\ TaskReturns

-----------------------------------------------------------------------------
CleanupStep ==
  CleanupClosing \/ CleanupAbort \/ CleanupCancel \/ CleanupOnClose \/ CleanupClosed

DriverStep ==
  \/ DriverInit \/ DriverInitWatchdog \/ DriverPing \/ DriverSpawn \/ DriverStreamEnds
  \/ DriverCancelled \/ DriverGraceful \/ DriverGracefulTimeout \/ DriverAwait
  \/ CleanupStep

\* What the reader does by itself with a packet it has read.
HandlePacket ==
  \/ ReadAbortInit \/ ReadInitHandler \/ ReadAwaitReady \/ ReadSpawnWatchdog
  \/ ReadSendInit \/ ReadAbortReady \/ ReadOnSessionReady

WriterStep == WriteRecv \/ WriteFails \/ WriteStops
PingStep == PingWakes \/ PingSend \/ PingClosed
CloseStep(c) == CloseGet(c) \/ CloseStore(c) \/ CloseTrySend(c)

\* What does not depend on a frame of the peer or on the socket.
Inner ==
  \/ DriverStep \/ HandlePacket \/ ReadStops \/ WriterStep \/ PingStep
  \/ \E w \in Watchdogs : WatchdogFires(w)
  \/ \E c \in CloseCallers : CloseStep(c)
  \/ Disconnect \/ Emit \/ EmitSend \/ EmitStops \/ TaskReturns

Next == Inner \/ WriteSend \/ ReadEnd \/ ReadEvent \/ ReadDisconnect \/ ReadInit \/ ReadReady

Spec == Init /\ [][Next]_vars

(***************************************************************************)
(* Fairness: Tokio polls every task that can go on, timers fire, a handler *)
(* is cut off by its timeout.  Nothing is assumed of the peer, not even    *)
(* that it reads (a socket write has no timeout and may take for ever), of *)
(* the application, or of when heartbeats and events are sent.             *)
(***************************************************************************)
Fairness ==
  /\ WF_vars(DriverStep \/ CloseStep("driver"))
  /\ WF_vars(HandlePacket \/ ReadStops)
  /\ WF_vars(WriteRecv \/ WriteStops)
  /\ WF_vars(PingSend \/ PingClosed \/ CloseStep("ping"))
  /\ \A w \in Watchdogs : WF_vars(WatchdogFires(w) \/ CloseStep(w))
  /\ WF_vars(TaskDropped)

FairSpec == Spec /\ Fairness

-----------------------------------------------------------------------------
(***************************************************************************)
(* Properties.                                                             *)
(***************************************************************************)
\* A closing session never comes back: whatever order the two watchdogs, the
\* ping task, the driver and cleanup() close it in, each reading and storing
\* `state` in two steps, no handshake step takes it out of Closing/Closed.
NoResurrection == [][(state \in Ended) => (state' \in Ended)]_vars

\* The server never gets an event before the answer to its Init packet.
EventsAfterInit ==
  /\ writing = "Event" => answered
  /\ \A i \in DOMAIN chan : chan[i] = "Event" =>
       answered \/ writing = "Init" \/ \E j \in 1..(i - 1) : chan[j] = "Init"

\* Whatever the server does, and even if it stops reading, a session becomes
\* Ready or is told to close: the handler's timeout and the two watchdogs see
\* to that.
HandshakeResolves == driver = "init" ~> state \in {"Ready"} \cup Ended

\* A disconnect() ends the session, whatever the peer does, and even if it stops
\* reading or if the channel has no room for the Close frame: disconnect_timeout
\* and the aborts after it bound the wait for the stream tasks.  The end is
\* that of cleanup(), or the panic of the second await of a stream task.
DisconnectEndsSession == cancelled ~> driver \in {"done", "panicked"}

\* A session that is cleaned up leaves nothing running: the ping task, both
\* watchdogs and the on_session_ready task end, also when the aborted reader
\* starts one of them late.
BackgroundEnds ==
  driver = "done" ~>
    [](ping \in {"none", "done"} /\ ~ task /\ \A w \in Watchdogs : watch[w] \in {"none", "done"})

(***************************************************************************)
(* What HandshakeResolves and BackgroundEnds rest on.                      *)
(***************************************************************************)
Past(pcs) == driver \in pcs \cup {"cancel", "on_close", "store_closed", "done"}

\* While the session waits for a packet of the server, the watchdog of that
\* packet is about to be spawned, asleep, or in its close(); while it handles
\* the Init packet the reader is busy with it, or gone.
HandshakeGuarded ==
  /\ state = "AwaitingInit" => \/ driver = "init_watchdog" \/ watch["init"] = "sleep"
                               \/ closing["init"] \in {"get", "store"}
  /\ state = "AwaitingReady" => \/ reader = "spawn_watchdog" \/ watch["ready"] = "sleep"
                                \/ closing["ready"] \in {"get", "store"}
  /\ state = "Initiating" => reader \in {"abort_init", "init_handler", "await_ready", "done"}

\* Once cleanup() has aborted them, the ping task at most finishes its close(),
\* and neither watchdog sleeps, but for a ready watchdog that a reader which
\* was aborted and not joined has started since.
BackgroundStopped ==
  /\ Past({"abort_ping", "abort_ready"}) => watch["init"] # "sleep"
  /\ Past({"abort_ready"}) => ping \in {"last_close", "done"}
  /\ Past({}) /\ watch["ready"] = "sleep" => readAborted

\* What makes the two inductive.
TimerInv ==
  /\ HandshakeGuarded /\ BackgroundStopped
  /\ Past({"abort_init", "abort_ping", "abort_ready"}) => state \in Ended
  /\ Past({"cleanup", "abort_init", "abort_ping", "abort_ready"}) => reader = "done" \/ readAborted
  /\ driver \in {"await_read", "await_write"} => readAborted
  /\ \A w \in Watchdogs : closing[w] = "try_send" => state \in Ended
=============================================================================
