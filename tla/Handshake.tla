------------------------------- MODULE Handshake -------------------------------
(***************************************************************************)
(* One websocket with both ends: ServerConnection and ClientSession joined *)
(* by the frames in flight.  Each end's writer puts frames on the wire and *)
(* the other end's reader takes them off in order; the connection may      *)
(* break, which loses what is in flight.                                   *)
(*                                                                         *)
(* Each end is followed up to the point where its driver goes on to        *)
(* cleanup(), which the other end cannot see.  Events and heartbeats are   *)
(* left out: the handshake ignores them, and the runs of the two modules   *)
(* have them.                                                              *)
(***************************************************************************)
EXTENDS Integers, Sequences, FiniteSets

CONSTANTS
  Capacity,    \* size of both message channels
  Closers,     \* application tasks of the server that close the connection
  Configured,  \* optional handlers of the server
  Window,      \* bound on the frames in flight per direction
  MaxTroubles  \* bound: how often the application closes, at either end, or the
               \* connection breaks

VARIABLES
  toClient, toServer,  \* frames in flight
  broken,              \* the connection is lost
  \* the server's connection
  state, driver, endedBy, reader, readAborted, chan, writer, writing, writeAborted, sent,
  watchdog, timeoutTask, registered, exposed, closing, emitting, onClose, cancelled, tasks,
  \* the client's session
  cState, cDriver, cCancelled, cReader, cReadAborted, cChan, cWriter, cWriting,
  cWriteAborted, cAnswered, cWatch, cPing, cPings, cEmitting, cClosing, cDropped, cTask

S == INSTANCE ServerConnection WITH Emitters <- {}

C == INSTANCE ClientSession WITH
  Configured <- {}, MaxPings <- 0,
  state <- cState, driver <- cDriver, cancelled <- cCancelled, reader <- cReader,
  readAborted <- cReadAborted, chan <- cChan, writer <- cWriter, writing <- cWriting,
  writeAborted <- cWriteAborted, answered <- cAnswered, watch <- cWatch, ping <- cPing,
  pings <- cPings, emitting <- cEmitting, closing <- cClosing, dropped <- cDropped,
  task <- cTask

ASSUME CapacityAssumption == Capacity \in Nat \ {0}
ASSUME ClosersAssumption == {"driver", "watchdog"} \cap Closers = {}
ASSUME ConfiguredAssumption == Configured \subseteq S!Handlers

wireVars == <<toClient, toServer, broken>>
serverVars == <<state, driver, endedBy, reader, readAborted, chan, writer, writing, writeAborted,
                sent, watchdog, timeoutTask, registered, exposed, closing, emitting, onClose,
                cancelled, tasks>>
clientVars == <<cState, cDriver, cCancelled, cReader, cReadAborted, cChan, cWriter, cWriting,
                cWriteAborted, cAnswered, cWatch, cPing, cPings, cEmitting, cClosing, cDropped,
                cTask>>
vars == <<wireVars, serverVars, clientVars>>

Init == toClient = <<>> /\ toServer = <<>> /\ broken = FALSE /\ S!Init /\ C!Init

\* Both halves of an end's stream are dropped: the socket is closed.
ServerGone == reader = "done" /\ writer = "done"
ClientGone == cReader = "done" /\ cWriter = "done"

\* An end is over when its driver has done with the stream tasks, ...
ServerOver == driver = "cleanup"
\* ... on the client also by the panic of a disconnect() (DriverGraceful).
ClientOver == cDriver \in {"cleanup", "panicked"}

\* What may happen at any time, and has happened so far.
Troubles ==
  Cardinality({c \in Closers : closing[c] # "idle"} \cup (IF broken THEN {"break"} ELSE {})
              \cup (IF cCancelled THEN {"disconnect"} ELSE {}))
CalmEnough == Troubles < MaxTroubles

-----------------------------------------------------------------------------
\* The connection breaks while both ends still hold it.
Break ==
  /\ CalmEnough /\ ~ broken /\ ~ ServerGone /\ ~ ClientGone
  /\ broken' = TRUE /\ toClient' = <<>> /\ toServer' = <<>>
  /\ UNCHANGED <<serverVars, clientVars>>

\* The server's writer puts a frame on the wire, or finds the socket closed.
ServerWrites ==
  /\ UNCHANGED <<toServer, broken, clientVars>>
  /\ \/ ~ broken /\ ~ ClientGone /\ Len(toClient) < Window
        /\ S!WriteSend /\ toClient' = Append(toClient, writing)
     \/ (broken \/ ClientGone) /\ S!WriteFails /\ UNCHANGED toClient

ClientWrites ==
  /\ UNCHANGED <<toClient, broken, serverVars>>
  /\ \/ ~ broken /\ ~ ServerGone /\ Len(toServer) < Window
        /\ C!WriteSend /\ toServer' = Append(toServer, cWriting)
     \/ (broken \/ ServerGone) /\ C!WriteFails /\ UNCHANGED toServer

\* A reader takes the next frame.
ServerReads ==
  /\ toServer # <<>> /\ reader = "next"
  /\ toServer' = Tail(toServer) /\ UNCHANGED <<toClient, broken, clientVars>>
  /\ LET frame == Head(toServer) IN
     \/ frame = "Init" /\ S!ReadInit
     \/ frame = "Close" /\ S!ReadEnd

ClientReads ==
  /\ toClient # <<>> /\ cReader = "next"
  /\ toClient' = Tail(toClient) /\ UNCHANGED <<toServer, broken, serverVars>>
  /\ LET frame == Head(toClient) IN
     \/ frame = "Init" /\ C!ReadInit
     \/ frame = "Ready" /\ C!ReadReady
     \/ frame = "Disconnect" /\ C!ReadDisconnect
     \/ frame = "Close" /\ C!ReadEnd

\* The stream ends: the connection is lost, or the other end closed it and
\* all its frames are read.
ServerReadsEnd ==
  /\ toServer = <<>> /\ (broken \/ ClientGone) /\ S!ReadEnd
  /\ UNCHANGED <<wireVars, clientVars>>

ClientReadsEnd ==
  /\ toClient = <<>> /\ (broken \/ ServerGone) /\ C!ReadEnd
  /\ UNCHANGED <<wireVars, serverVars>>

\* The tasks of each end that do not look at the wire.
ServerStep(step) == step /\ UNCHANGED <<wireVars, clientVars>>
ClientStep(step) == step /\ UNCHANGED <<wireVars, serverVars>>

ServerDriver == ServerStep(
  \/ S!DriverInit \/ S!DriverInitRequest \/ S!DriverAwaitInit \/ S!DriverSpawnWatchdog
  \/ S!DriverStoreWatchdog \/ S!DriverSendInit \/ S!DriverSelect \/ S!DriverFail \/ S!DriverJoin
  \/ S!CloseStep("driver"))
ServerReader == ServerStep(S!HandleInitPacket)
ServerReaderStops == ServerStep(S!ReadStops)
ServerWriter == ServerStep(S!WriteRecv \/ S!WriteStops)
ServerWatchdog == ServerStep(S!WatchdogStep \/ S!CloseStep("watchdog"))
\* A task of the application goes on with the close() or disconnect() it has called.
ServerCloses(c) == ServerStep(S!DisconnectSend(c) \/ S!CloseStep(c))
ServerCalled(c) == ServerStep(S!Disconnect(c) \/ S!CloseAll(c))

ClientDriver == ClientStep(
  \/ C!DriverInit \/ C!DriverInitWatchdog \/ C!DriverPing \/ C!DriverSpawn \/ C!DriverStreamEnds
  \/ C!DriverCancelled \/ C!DriverGraceful \/ C!DriverGracefulTimeout \/ C!DriverAwait
  \/ C!CloseStep("driver"))
ClientReader == ClientStep(C!HandlePacket)
ClientReaderStops == ClientStep(C!ReadStops)
ClientWriter == ClientStep(C!WriteRecv \/ C!WriteStops)
ClientWatchdog(w) == ClientStep(C!WatchdogFires(w) \/ C!CloseStep(w))
ClientDisconnect == ClientStep(C!Disconnect)

\* What goes on by itself.
Progress ==
  \/ ServerWrites \/ ClientWrites \/ ServerReads \/ ClientReads
  \/ ServerReadsEnd \/ ClientReadsEnd
  \/ ServerDriver \/ ServerReader \/ ServerReaderStops \/ ServerWriter \/ ServerWatchdog
  \/ \E c \in Closers : ServerCloses(c)
  \/ ClientDriver \/ ClientReader \/ ClientReaderStops \/ ClientWriter
  \/ \E w \in C!Watchdogs : ClientWatchdog(w)

Next ==
  \/ Progress \/ Break
  \/ CalmEnough /\ \E c \in Closers : ServerCalled(c)
  \/ CalmEnough /\ ClientDisconnect

Spec == Init /\ [][Next]_vars

-----------------------------------------------------------------------------
(***************************************************************************)
(* Properties.                                                             *)
(***************************************************************************)
A == INSTANCE Agreement WITH
  server <- IF ServerOver \/ state \in S!Ended THEN "closed"
            ELSE IF state = "Ready" THEN "accepted" ELSE "asking",
  answered <- cAnswered,
  announced <- "Ready" \in sent,
  client <- IF ClientOver \/ cState \in C!Ended THEN "closed"
            ELSE IF cState = "Ready" THEN "ready" ELSE "asking"

\* The two ends together implement Agreement: whatever breaks, times out or
\* closes in between, a client is ready only after the server announced it,
\* the server accepts only a client that answered, and neither end comes back
\* once it is closing.
Agrees == A!Spec

\* When the client takes itself for ready the namespace can reach it, unless
\* the server is already cleaning up: a broadcast sent after on_session_ready
\* finds the connection.
ClientReadyMeansServerRegistered ==
  cState = "Ready" /\ ~ ServerOver => registered = S!Registries

\* The driver of the server joins its tasks after a failed init(), but the
\* Close frame that would end the writer found the channel full: it waits on,
\* also when the client is gone, for nobody writes any more.
ServerStuck == driver = "join" /\ S!CloseDropped

\* No end is left waiting for a peer that is gone: when one end is done with
\* the connection, be it that its own application or the peer's disconnects,
\* that a timeout closes it or that the handshake fails, then as long as the
\* other end is not done some task or some frame can still move.  As each end
\* takes only finitely many such steps, both ends end together.  The
\* exceptions are a lost connection, of which an end that only reads may
\* never learn, and ServerStuck.
EndsTogether ==
  (ServerOver # ClientOver) /\ ~ broken => ServerStuck \/ ENABLED Progress

=============================================================================
