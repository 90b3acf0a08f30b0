---------------------------- MODULE HandshakeProofs ----------------------------
(***************************************************************************)
(* Theorems about Handshake, for every channel capacity, window, set of    *)
(* closing tasks and choice of the server's handlers.                      *)
(*                                                                         *)
(* The composition is proved from its parts.  Each end of the handshake    *)
(* behaves as the component on its own (ServerEnd, ClientEnd), so that     *)
(* what is proved of ServerConnection and of ClientSession holds here; what*)
(* is left is how the frames in flight tie the two together.               *)
(***************************************************************************)
EXTENDS Handshake, TLAPS

SP == INSTANCE ServerConnectionProofs WITH Emitters <- {}

CP == INSTANCE ClientSessionProofs WITH
  Configured <- {}, MaxPings <- 0,
  state <- cState, driver <- cDriver, cancelled <- cCancelled, reader <- cReader,
  readAborted <- cReadAborted, chan <- cChan, writer <- cWriter, writing <- cWriting,
  writeAborted <- cWriteAborted, answered <- cAnswered, watch <- cWatch, ping <- cPing,
  pings <- cPings, emitting <- cEmitting, closing <- cClosing, dropped <- cDropped,
  task <- cTask

(***************************************************************************)
(* The ends of the handshake are the two components.                       *)
(***************************************************************************)
\* What the components assume of their constants holds.
LEMMA ServerAssumptions ==
  SP!CapacityAssumption /\ SP!ClosersAssumption /\ SP!ConfiguredAssumption
  BY CapacityAssumption, ClosersAssumption, ConfiguredAssumption
     DEF SP!CapacityAssumption, SP!ClosersAssumption, SP!ConfiguredAssumption, SP!Handlers,
         S!Handlers

LEMMA ClientAssumptions == CP!SizesAssumption /\ CP!ConfiguredAssumption
  BY CapacityAssumption DEF CP!SizesAssumption, CP!ConfiguredAssumption

\* S and SP are two instances of the same specification, and so are C and CP.
LEMMA SameServer ==
  (S!Init => SP!Init) /\ (S!Next => SP!Next) /\ (UNCHANGED serverVars => UNCHANGED SP!vars)
BY DEF serverVars,
       S!Handlers, S!driverVars, S!readVars, S!writeVars, S!watchVars, S!callVars, S!taskVars, S!vars,
       S!Ended, S!Milestones, S!CloseCallers, S!ReadAwaits, S!Init, S!HasRoom, S!Send, S!SendFails, S!TrySend,
       S!WriterOnly, S!WriteRecv, S!WriteEnd, S!WriteSend, S!WriteFails, S!WriteStops,
       S!DriverOnly, S!DriverInit, S!DriverInitRequest, S!DriverAwaitInit, S!DriverSpawnWatchdog,
       S!DriverStoreWatchdog, S!DriverSendInit, S!DriverSelect, S!DriverFail, S!DriverJoin,
       S!CleanupClosing, S!RemoveFrom, S!CleanupRemoveConnection, S!AbortLockedTask,
       S!CleanupAbortWatchdog, S!CleanupCancel, S!CleanupTakeOnClose, S!CleanupOnClose,
       S!CleanupClosed, S!ReaderOnly, S!AfterMiddleware, S!AfterActivate, S!ReadEnd, S!ReadEvent,
       S!ReadTransition, S!ReadInit, S!ReadAbortWatchdog, S!ReadActivate, S!ReadReady,
       S!ReadHandler, S!ReadInitResponse, S!ReadMiddleware, S!ReadOnConnect,
       S!ReadEnsureActivating, S!InsertInto, S!ReadInsertConnection, S!ReadSendReady,
       S!ReadOnReady, S!ReadStops, S!WatchdogOnly, S!WatchdogWakes, S!WatchdogChecks,
       S!CloserOnly, S!CloseGet, S!CloseStore, S!CloseTrySend, S!Broadcastable, S!Disconnect,
       S!DisconnectSend, S!CloseAll, S!EmitterOnly, S!Emit, S!DisconnectAll, S!EmitSend,
       S!OnClose, S!TaskReturns, S!WriterStep, S!CleanupStep, S!DriverStep, S!ReadFrame,
       S!HandleInitPacket, S!WatchdogStep, S!CloseStep, S!Next,
       SP!Handlers, SP!driverVars, SP!readVars, SP!writeVars, SP!watchVars, SP!callVars, SP!taskVars,
       SP!vars, SP!Ended, SP!Milestones, SP!CloseCallers, SP!ReadAwaits, SP!Init, SP!HasRoom, SP!Send,
       SP!SendFails, SP!TrySend, SP!WriterOnly, SP!WriteRecv, SP!WriteEnd, SP!WriteSend,
       SP!WriteFails, SP!WriteStops, SP!DriverOnly, SP!DriverInit, SP!DriverInitRequest,
       SP!DriverAwaitInit, SP!DriverSpawnWatchdog, SP!DriverStoreWatchdog, SP!DriverSendInit,
       SP!DriverSelect, SP!DriverFail, SP!DriverJoin, SP!CleanupClosing, SP!RemoveFrom,
       SP!CleanupRemoveConnection, SP!AbortLockedTask, SP!CleanupAbortWatchdog, SP!CleanupCancel,
       SP!CleanupTakeOnClose, SP!CleanupOnClose, SP!CleanupClosed, SP!ReaderOnly,
       SP!AfterMiddleware, SP!AfterActivate, SP!ReadEnd, SP!ReadEvent, SP!ReadTransition,
       SP!ReadInit, SP!ReadAbortWatchdog, SP!ReadActivate, SP!ReadReady, SP!ReadHandler,
       SP!ReadInitResponse, SP!ReadMiddleware, SP!ReadOnConnect, SP!ReadEnsureActivating,
       SP!InsertInto, SP!ReadInsertConnection, SP!ReadSendReady, SP!ReadOnReady, SP!ReadStops,
       SP!WatchdogOnly, SP!WatchdogWakes, SP!WatchdogChecks, SP!CloserOnly, SP!CloseGet,
       SP!CloseStore, SP!CloseTrySend, SP!Broadcastable, SP!Disconnect, SP!DisconnectSend,
       SP!CloseAll, SP!EmitterOnly, SP!Emit, SP!DisconnectAll, SP!EmitSend, SP!OnClose,
       SP!TaskReturns, SP!WriterStep, SP!CleanupStep, SP!DriverStep, SP!ReadFrame,
       SP!HandleInitPacket, SP!WatchdogStep, SP!CloseStep, SP!Next

LEMMA SameClient ==
  (C!Init => CP!Init) /\ (C!Next => CP!Next) /\ (UNCHANGED clientVars => UNCHANGED CP!vars)
BY DEF clientVars,
       C!readVars, C!writeVars, C!bgVars, C!callVars, C!taskVars, C!vars, C!Ended, C!Watchdogs,
       C!CloseCallers, C!ReadAwaits, C!Init, C!HasRoom, C!ChanOnly, C!Send, C!SendFails,
       C!TrySend, C!WriterOnly, C!WriteRecv, C!WriteEnd, C!WriteSend, C!WriteFails, C!WriteStops,
       C!DriverOnly, C!DriverInit, C!DriverInitWatchdog, C!DriverPing, C!DriverSpawn,
       C!StreamEnds, C!SelectOnly, C!DriverStreamEnds, C!DriverCancelled, C!DriverGraceful,
       C!DriverGracefulTimeout, C!DriverAwait, C!CleanupClosing, C!AbortLockedTask,
       C!CleanupAbort, C!CleanupCancel, C!CleanupOnClose, C!CleanupClosed, C!ReaderOnly,
       C!ReadPlain, C!ReadEnd, C!ReadEvent, C!ReadDisconnect, C!ReadTransition, C!ReadInit,
       C!ReadAbortInit, C!ReadInitHandler, C!ReadAwaitReady, C!ReadSpawnWatchdog, C!ReadSendInit,
       C!ReadReady, C!ReadAbortReady, C!ReadOnSessionReady, C!ReadStops, C!BgOnly, C!Awaited,
       C!WatchdogFires, C!PingWakes, C!PingSend, C!PingClosed, C!CloserOnly, C!CloseGet,
       C!CloseStore, C!CloseTrySend, C!RuntimeOnly, C!Disconnect, C!Emit, C!EmitSend, C!EmitStops,
       C!TaskReturns, C!CleanupStep, C!DriverStep, C!HandlePacket, C!WriterStep, C!PingStep,
       C!CloseStep, C!Inner, C!Next,
       CP!readVars, CP!writeVars, CP!bgVars, CP!callVars, CP!taskVars, CP!vars, CP!Ended, CP!Watchdogs,
       CP!CloseCallers, CP!ReadAwaits, CP!Init, CP!HasRoom, CP!ChanOnly, CP!Send, CP!SendFails,
       CP!TrySend, CP!WriterOnly, CP!WriteRecv, CP!WriteEnd, CP!WriteSend, CP!WriteFails,
       CP!WriteStops, CP!DriverOnly, CP!DriverInit, CP!DriverInitWatchdog, CP!DriverPing,
       CP!DriverSpawn, CP!StreamEnds, CP!SelectOnly, CP!DriverStreamEnds, CP!DriverCancelled,
       CP!DriverGraceful, CP!DriverGracefulTimeout, CP!DriverAwait, CP!CleanupClosing,
       CP!AbortLockedTask, CP!CleanupAbort, CP!CleanupCancel, CP!CleanupOnClose, CP!CleanupClosed,
       CP!ReaderOnly, CP!ReadPlain, CP!ReadEnd, CP!ReadEvent, CP!ReadDisconnect,
       CP!ReadTransition, CP!ReadInit, CP!ReadAbortInit, CP!ReadInitHandler, CP!ReadAwaitReady,
       CP!ReadSpawnWatchdog, CP!ReadSendInit, CP!ReadReady, CP!ReadAbortReady,
       CP!ReadOnSessionReady, CP!ReadStops, CP!BgOnly, CP!Awaited, CP!WatchdogFires, CP!PingWakes,
       CP!PingSend, CP!PingClosed, CP!CloserOnly, CP!CloseGet, CP!CloseStore, CP!CloseTrySend,
       CP!RuntimeOnly, CP!Disconnect, CP!Emit, CP!EmitSend, CP!EmitStops, CP!TaskReturns,
       CP!CleanupStep, CP!DriverStep, CP!HandlePacket, CP!WriterStep, CP!PingStep, CP!CloseStep,
       CP!Inner, CP!Next

\* A step of the handshake is a step of the server or leaves the server alone.
LEMMA ServerMoves == [Next]_vars => S!Next \/ UNCHANGED serverVars
BY DEF Next, Progress, vars, Break, ServerWrites, ClientWrites, ServerReads, ClientReads,
       ServerReadsEnd, ClientReadsEnd, ServerStep, ClientStep, ServerDriver, ServerReader,
       ServerReaderStops, ServerWriter, ServerWatchdog, ServerCloses, ServerCalled,
       ClientDriver, ClientReader, ClientReaderStops, ClientWriter, ClientWatchdog, ClientDisconnect,
       S!Next, S!WriterStep, S!DriverStep, S!ReadFrame, S!CloseCallers

LEMMA ClientMoves == [Next]_vars => C!Next \/ UNCHANGED clientVars
BY DEF Next, Progress, vars, Break, ServerWrites, ClientWrites, ServerReads, ClientReads,
       ServerReadsEnd, ClientReadsEnd, ServerStep, ClientStep, ServerDriver, ServerReader,
       ServerReaderStops, ServerWriter, ServerWatchdog, ServerCloses, ServerCalled,
       ClientDriver, ClientReader, ClientReaderStops, ClientWriter, ClientWatchdog, ClientDisconnect,
       C!Next, C!Inner, C!WriterStep, C!DriverStep, C!CloseCallers

\* The server of the handshake is a ServerConnection, whatever the client and
\* the network do; the client is a ClientSession.
LEMMA ServerEnd == Spec => SP!Spec
<1>1. Init => SP!Init
  BY SameServer DEF Init
<1>2. [Next]_vars => [SP!Next]_(SP!vars)
  BY SameServer, ServerMoves
<1> QED  BY <1>1, <1>2, PTL DEF Spec, SP!Spec

LEMMA ClientEnd == Spec => CP!Spec
<1>1. Init => CP!Init
  BY SameClient DEF Init
<1>2. [Next]_vars => [CP!Next]_(CP!vars)
  BY SameClient, ClientMoves
<1> QED  BY <1>1, <1>2, PTL DEF Spec, CP!Spec

LEMMA EndsCorrect ==
  Spec => [](/\ SP!TypeOK /\ SP!RegistrationInv /\ SP!StageInv
             /\ CP!TypeOK /\ CP!HandshakeInv)
BY ServerEnd, ClientEnd, ServerAssumptions, ClientAssumptions, SP!TypeCorrect,
   SP!RegistrationCorrect, SP!StageCorrect, CP!TypeCorrect, CP!HandshakeCorrect, PTL

(***************************************************************************)
(* The frames in flight tie the ends together.                             *)
(***************************************************************************)
Carries(frames, m) == \E i \in DOMAIN frames : frames[i] = m

\* What is in flight was written: an Init frame by a client that has answered,
\* a Ready frame by a server that has announced it.
WireInv ==
  /\ toServer \in Seq(C!Message) /\ toClient \in Seq(S!Message)
  /\ Carries(toServer, "Init") => cAnswered
  /\ Carries(toClient, "Ready") => "Ready" \in sent

\* What one end has come to, the other end has made possible.
TiedInv ==
  /\ driver \in S!InitPC \cup {"cleanup"}
  /\ state \in {"Initiating", "Activating", "Ready"} \/ SP!ReadyDue => cAnswered
  /\ cState = "Ready" => "Ready" \in sent

HandshakeInv == WireInv /\ TiedInv

\* What the components' theorems say of a step.
ServerFacts == SP!TypeOK /\ SP!StageInv
ClientFacts == CP!TypeOK /\ CP!HandshakeInv

\* Putting a frame on the wire and taking one off.
LEMMA FrameSent ==
  ASSUME NEW M, NEW q \in Seq(M), NEW x \in M, NEW m, Carries(Append(q, x), m)
  PROVE  Carries(q, m) \/ x = m
BY DEF Carries

LEMMA FrameTaken ==
  ASSUME NEW M, NEW q \in Seq(M), q # <<>>
  PROVE  /\ Tail(q) \in Seq(M) /\ Carries(q, Head(q))
         /\ \A m : Carries(Tail(q), m) => Carries(q, m)
<1>1. Tail(q) \in Seq(M) /\ Head(q) = q[1] /\ 1 \in DOMAIN q
  OBVIOUS
<1>2. \A i \in DOMAIN Tail(q) : i + 1 \in DOMAIN q /\ Tail(q)[i] = q[i + 1]
  OBVIOUS
<1> QED  BY <1>1, <1>2 DEF Carries

\* The server's state becomes Initiating when its reader takes an Init frame
\* off the wire, and at no other time.
LEMMA InitiatingMeansFrame ==
  ASSUME Next, state # "Initiating", state' = "Initiating"
  PROVE  toServer # <<>> /\ Head(toServer) = "Init"
<1> USE DEF S!Ended
<1>1. ~ ServerDriver
  BY DEF ServerDriver, ServerStep, S!DriverInit, S!DriverInitRequest, S!DriverAwaitInit,
         S!DriverSpawnWatchdog, S!DriverStoreWatchdog, S!DriverSendInit, S!DriverSelect,
         S!DriverFail, S!DriverJoin, S!CloseStep, S!CloseGet, S!CloseStore, S!CloseTrySend
<1>2. ~ (ServerReader \/ ServerReaderStops \/ ServerReadsEnd)
  BY DEF ServerReader, ServerReaderStops, ServerReadsEnd, ServerStep, S!HandleInitPacket,
         S!ReadAbortWatchdog, S!ReadInitResponse, S!ReadActivate, S!ReadMiddleware,
         S!ReadEnsureActivating, S!ReadOnConnect, S!ReadReady, S!ReadTransition, S!ReadHandler,
         S!ReadInsertConnection, S!InsertInto, S!ReadSendReady, S!ReadOnReady, S!ReadStops,
         S!ReadEnd
<1>3. ~ (ServerWriter \/ ServerWrites)
  BY DEF ServerWriter, ServerWrites, ServerStep, S!WriteRecv, S!WriteStops, S!WriteSend,
         S!WriteFails, S!WriteEnd, S!WriterOnly
<1>4. ~ ServerWatchdog /\ \A c \in Closers : ~ (ServerCloses(c) \/ ServerCalled(c))
  BY DEF ServerWatchdog, ServerCloses, ServerCalled, ServerStep, S!WatchdogStep,
         S!WatchdogWakes, S!WatchdogChecks, S!WatchdogOnly, S!CloseStep, S!CloseGet,
         S!CloseStore, S!CloseTrySend, S!CloseAll, S!Disconnect, S!DisconnectSend, S!CloserOnly
<1>5. state' = state \/ ServerReads
  BY <1>1, <1>2, <1>3, <1>4 DEF Next, Progress, Break, ClientWrites, ClientReads,
     ClientReadsEnd, ClientStep, ClientDriver, ClientReader, ClientReaderStops, ClientWriter,
     ClientWatchdog, ClientDisconnect, serverVars
<1>6. CASE ServerReads
  BY <1>6 DEF ServerReads, S!ReadEnd
<1> QED  BY <1>5, <1>6

\* The client's state becomes Ready when its reader takes a Ready frame off
\* the wire.
LEMMA ReadyMeansFrame ==
  ASSUME Next, cState # "Ready", cState' = "Ready"
  PROVE  toClient # <<>> /\ Head(toClient) = "Ready"
<1>1. ~ ClientDriver
  BY DEF ClientDriver, ClientStep, C!DriverInit, C!DriverInitWatchdog, C!DriverPing,
         C!DriverSpawn, C!DriverStreamEnds, C!SelectOnly, C!DriverCancelled, C!DriverGraceful,
         C!DriverGracefulTimeout, C!DriverAwait, C!CloseStep, C!CloseGet, C!CloseStore,
         C!CloseTrySend
<1>2. ~ (ClientReader \/ ClientReaderStops \/ ClientReadsEnd)
  BY DEF ClientReader, ClientReaderStops, ClientReadsEnd, ClientStep, C!HandlePacket,
         C!ReadAbortInit, C!ReadInitHandler, C!ReadAwaitReady, C!ReadSpawnWatchdog,
         C!ReadSendInit, C!ReadAbortReady, C!ReadOnSessionReady, C!ReadStops, C!ReadPlain,
         C!ReadTransition, C!ReadEnd
<1>3. ~ (ClientWriter \/ ClientWrites)
  BY DEF ClientWriter, ClientWrites, ClientStep, C!WriteRecv, C!WriteStops, C!WriteSend,
         C!WriteFails, C!WriteEnd, C!WriterOnly
<1>4. ~ ClientDisconnect /\ \A w \in C!Watchdogs : ~ ClientWatchdog(w)
  BY DEF ClientDisconnect, ClientWatchdog, ClientStep, C!Disconnect, C!RuntimeOnly,
         C!WatchdogFires, C!BgOnly, C!CloseStep, C!CloseGet, C!CloseStore, C!CloseTrySend
<1>5. cState' = cState \/ ClientReads
  BY <1>1, <1>2, <1>3, <1>4 DEF Next, Progress, Break, ServerWrites, ServerReads,
     ServerReadsEnd, ServerStep, ServerDriver, ServerReader, ServerReaderStops, ServerWriter,
     ServerWatchdog, ServerCloses, ServerCalled, clientVars
<1>6. CASE ClientReads
  BY <1>6 DEF ClientReads, C!ReadInit, C!ReadTransition, C!ReadEnd, C!ReadPlain,
     C!ReadDisconnect
<1> QED  BY <1>5, <1>6

\* The frames in flight: lost, taken off, or put on by the other end's writer.
LEMMA WireStep ==
  ASSUME Next
  PROVE  /\ \/ toServer' \in {toServer, <<>>}
            \/ toServer # <<>> /\ toServer' = Tail(toServer)
            \/ C!WriteSend /\ toServer' = Append(toServer, cWriting)
         /\ \/ toClient' \in {toClient, <<>>}
            \/ toClient # <<>> /\ toClient' = Tail(toClient)
            \/ S!WriteSend /\ toClient' = Append(toClient, writing)
BY DEF Next, Progress, Break, ServerWrites, ClientWrites, ServerReads, ClientReads,
       ServerReadsEnd, ClientReadsEnd, ServerStep, ClientStep, ServerDriver, ServerReader,
       ServerReaderStops, ServerWriter, ServerWatchdog, ServerCloses, ServerCalled,
       ClientDriver, ClientReader, ClientReaderStops, ClientWriter, ClientWatchdog,
       ClientDisconnect, wireVars

\* Each driver is followed up to its cleanup(), and stays there.
LEMMA DriversStep ==
  ASSUME Next
  PROVE  /\ driver \in S!InitPC \cup {"cleanup"} => driver' \in S!InitPC \cup {"cleanup"}
         /\ driver = "cleanup" => driver' = "cleanup"
         /\ ClientOver => ClientOver'
<1>1. driver' = driver \/ ServerDriver
  <2>1. CASE ServerReader \/ ServerReaderStops \/ ServerReadsEnd \/ ServerReads
    BY <2>1 DEF ServerReader, ServerReaderStops, ServerReadsEnd, ServerReads, ServerStep,
       S!HandleInitPacket, S!ReadAbortWatchdog, S!ReadInitResponse, S!ReadActivate,
       S!ReadMiddleware, S!ReadEnsureActivating, S!ReadOnConnect, S!ReadReady,
       S!ReadTransition, S!ReadHandler, S!ReadInsertConnection, S!InsertInto, S!ReadSendReady,
       S!ReadOnReady, S!ReadStops, S!ReadEnd, S!ReadInit, S!ReaderOnly, S!driverVars
  <2>2. CASE ServerWriter \/ ServerWrites
    BY <2>2 DEF ServerWriter, ServerWrites, ServerStep, S!WriteRecv, S!WriteStops, S!WriteSend,
       S!WriteFails, S!WriteEnd, S!WriterOnly, S!driverVars
  <2>3. CASE ServerWatchdog \/ \E c \in Closers : ServerCloses(c) \/ ServerCalled(c)
    BY <2>3 DEF ServerWatchdog, ServerCloses, ServerCalled, ServerStep, S!WatchdogStep,
       S!WatchdogWakes, S!WatchdogChecks, S!WatchdogOnly, S!CloseStep, S!CloseGet,
       S!CloseStore, S!CloseTrySend, S!CloseAll, S!Disconnect, S!DisconnectSend, S!CloserOnly, S!driverVars
  <2> QED
    BY <2>1, <2>2, <2>3 DEF Next, Progress, Break, ClientWrites, ClientReads, ClientReadsEnd,
       ClientStep, ClientDriver, ClientReader, ClientReaderStops, ClientWriter,
       ClientWatchdog, ClientDisconnect, serverVars
<1>2. CASE ServerDriver
  BY <1>2 DEF ServerDriver, ServerStep, S!DriverInit, S!DriverInitRequest, S!DriverAwaitInit,
     S!DriverSpawnWatchdog, S!DriverStoreWatchdog, S!DriverSendInit, S!DriverSelect,
     S!DriverFail, S!DriverJoin, S!CloseStep, S!CloseGet, S!CloseStore, S!CloseTrySend,
     S!CloserOnly, S!driverVars, S!InitPC, clientVars, ClientOver
<1>3. cDriver' = cDriver \/ ClientDriver
  <2>1. CASE ClientReader \/ ClientReaderStops \/ ClientReadsEnd \/ ClientReads
    BY <2>1 DEF ClientReader, ClientReaderStops, ClientReadsEnd, ClientReads, ClientStep,
       C!HandlePacket, C!ReadAbortInit, C!ReadInitHandler, C!ReadAwaitReady,
       C!ReadSpawnWatchdog, C!ReadSendInit, C!ReadAbortReady, C!ReadOnSessionReady,
       C!ReadStops, C!ReadPlain, C!ReadTransition, C!ReadEnd, C!ReadInit, C!ReadReady,
       C!ReadDisconnect, C!ReaderOnly
  <2>2. CASE ClientWriter \/ ClientWrites
    BY <2>2 DEF ClientWriter, ClientWrites, ClientStep, C!WriteRecv, C!WriteStops, C!WriteSend,
       C!WriteFails, C!WriteEnd, C!WriterOnly
  <2>3. CASE ClientDisconnect \/ \E w \in C!Watchdogs : ClientWatchdog(w)
    BY <2>3 DEF ClientDisconnect, C!Disconnect, C!RuntimeOnly, ClientWatchdog, ClientStep,
       C!WatchdogFires, C!BgOnly, C!CloseStep,
       C!CloseGet, C!CloseStore, C!CloseTrySend, C!CloserOnly
  <2> QED
    BY <2>1, <2>2, <2>3 DEF Next, Progress, Break, ServerWrites, ServerReads, ServerReadsEnd,
       ServerStep, ServerDriver, ServerReader, ServerReaderStops, ServerWriter,
       ServerWatchdog, ServerCloses, ServerCalled, clientVars
<1>4. CASE ClientDriver
  BY <1>4 DEF ClientDriver, ClientStep, C!DriverInit, C!DriverInitWatchdog, C!DriverPing,
     C!DriverSpawn, C!DriverStreamEnds, C!DriverCancelled, C!DriverGraceful,
     C!DriverGracefulTimeout, C!DriverAwait, C!CloseStep, C!CloseGet, C!CloseStore,
     C!CloseTrySend, C!CloserOnly, ClientOver, serverVars
<1> QED  BY <1>1, <1>2, <1>3, <1>4 DEF ClientOver

\* What the ends' own steps do to what the other end relies on.
LEMMA EndsStep ==
  ASSUME ServerFacts, ClientFacts, Next
  PROVE  /\ sent \subseteq sent' /\ (cAnswered => cAnswered')
         /\ \/ sent' = sent
            \/ sent' = sent \cup {writing} /\ UNCHANGED <<state, driver>>
         /\ \/ cAnswered' = cAnswered
            \/ cAnswered' = (cAnswered \/ cWriting = "Init") /\ UNCHANGED <<cState, cDriver>>
         /\ \/ state' \in {state} \cup S!Ended
            \/ state = "Created" /\ state' = "AwaitingInit"
            \/ state = "AwaitingInit" /\ state' = "Initiating"
            \/ state = "Initiating" /\ state' = "Activating"
            \/ state = "Activating" /\ state' = "Ready"
         /\ \/ cState' \in {cState} \cup C!Ended
            \/ cState \notin C!Ended \cup {"Ready"} /\ cState' \notin C!Ended
         /\ SP!ReadyDue' => SP!ReadyDue \/ state = "Activating"
<1>1. [SP!Next]_(SP!vars)
  BY SameServer, ServerMoves
<1>2. [CP!Next]_(CP!vars)
  BY SameClient, ClientMoves
<1>3. /\ \/ sent' = sent
         \/ sent' = sent \cup {writing} /\ UNCHANGED <<state, driver>>
      /\ SP!ReadyDue' => SP!ReadyDue \/ state = "Activating"
  BY <1>1, SP!SentStep, SP!ReadyDueStep, ServerAssumptions DEF ServerFacts
<1>4. \/ state' \in {state} \cup S!Ended
      \/ state = "Created" /\ state' = "AwaitingInit"
      \/ state = "AwaitingInit" /\ state' = "Initiating"
      \/ state = "Initiating" /\ state' = "Activating"
      \/ state = "Activating" /\ state' = "Ready"
  BY <1>1, SP!StateStep, ServerAssumptions DEF SP!Ended, S!Ended
<1>5. \/ cAnswered' = cAnswered
      \/ cAnswered' = (cAnswered \/ cWriting = "Init") /\ UNCHANGED <<cState, cDriver>>
  BY <1>2, CP!AnsweredStep, ClientAssumptions
<1>6. \/ cState' \in {cState} \cup C!Ended
      \/ cState \notin C!Ended \cup {"Ready"} /\ cState' \notin C!Ended
  BY <1>2, CP!StateStep, ClientAssumptions
     DEF ClientFacts, CP!HandshakeInv, CP!StartInv, CP!Ended, C!Ended
<1>7. sent \subseteq sent'
  BY <1>3
<1>8. cAnswered => cAnswered'
  BY <1>5
<1> QED  BY <1>3, <1>4, <1>5, <1>6, <1>7, <1>8

LEMMA WirePreserved == ASSUME ServerFacts, ClientFacts, WireInv, Next PROVE WireInv'
<1> USE DEF WireInv
<1>1. sent \subseteq sent' /\ (cAnswered => cAnswered')
  BY EndsStep
<1>2. writing \in S!Message \cup {"none"} /\ cWriting \in C!Message \cup {"none"}
  BY DEF ServerFacts, ClientFacts, SP!TypeOK, SP!ChannelTypeOK, CP!TypeOK, SP!Message,
         S!Message, CP!Message, C!Message
<1>3. toServer' \in Seq(C!Message) /\ (Carries(toServer', "Init") => cAnswered')
  <2>0. CASE toServer' = toServer
    BY <1>1, <2>0
  <2>1. CASE toServer' = <<>>
    BY <2>1 DEF Carries
  <2>2. CASE toServer # <<>> /\ toServer' = Tail(toServer)
    BY <1>1, <2>2, FrameTaken
  <2>3. CASE C!WriteSend /\ toServer' = Append(toServer, cWriting)
    <3>1. cWriting \in C!Message
      BY <1>2, <2>3 DEF C!WriteSend
    <3>2. cWriting = "Init" => cAnswered'
      BY <2>3 DEF C!WriteSend
    <3>3. toServer' \in Seq(C!Message)
      BY <2>3, <3>1
    <3>4. Carries(toServer', "Init") => Carries(toServer, "Init") \/ cWriting = "Init"
      BY <2>3, <3>1, FrameSent
    <3> QED  BY <1>1, <3>2, <3>3, <3>4
  <2> QED  BY <2>0, <2>1, <2>2, <2>3, WireStep
<1>4. toClient' \in Seq(S!Message) /\ (Carries(toClient', "Ready") => "Ready" \in sent')
  <2>0. CASE toClient' = toClient
    BY <1>1, <2>0
  <2>1. CASE toClient' = <<>>
    BY <2>1 DEF Carries
  <2>2. CASE toClient # <<>> /\ toClient' = Tail(toClient)
    BY <1>1, <2>2, FrameTaken
  <2>3. CASE S!WriteSend /\ toClient' = Append(toClient, writing)
    <3>1. writing \in S!Message
      BY <1>2, <2>3 DEF S!WriteSend
    <3>2. writing = "Ready" => "Ready" \in sent'
      BY <2>3 DEF S!WriteSend, S!Milestones
    <3>3. toClient' \in Seq(S!Message)
      BY <2>3, <3>1
    <3>4. Carries(toClient', "Ready") => Carries(toClient, "Ready") \/ writing = "Ready"
      BY <2>3, <3>1, FrameSent
    <3> QED  BY <1>1, <3>2, <3>3, <3>4
  <2> QED  BY <2>0, <2>1, <2>2, <2>3, WireStep
<1> QED  BY <1>3, <1>4 DEF Carries

LEMMA TiedPreserved == ASSUME ServerFacts, ClientFacts, HandshakeInv, Next PROVE TiedInv'
<1> USE DEF HandshakeInv, TiedInv
<1>1. driver' \in S!InitPC \cup {"cleanup"}
  BY DriversStep
<1>2. ASSUME state' = "Initiating", state # "Initiating" PROVE cAnswered
  <2>1. toServer # <<>> /\ Head(toServer) = "Init"
    BY <1>2, InitiatingMeansFrame
  <2> QED  BY <2>1, FrameTaken DEF WireInv
<1>3. ASSUME state' \in {"Initiating", "Activating", "Ready"} \/ SP!ReadyDue' PROVE cAnswered
  BY <1>2, <1>3, EndsStep DEF S!Ended
<1>4. ASSUME cState' = "Ready", cState # "Ready" PROVE "Ready" \in sent
  <2>1. toClient # <<>> /\ Head(toClient) = "Ready"
    BY <1>4, ReadyMeansFrame
  <2> QED  BY <2>1, FrameTaken DEF WireInv
<1>5. sent \subseteq sent' /\ (cAnswered => cAnswered')
  BY EndsStep
<1> QED  BY <1>1, <1>3, <1>4, <1>5

LEMMA HandshakeStep ==
  ServerFacts /\ ClientFacts /\ HandshakeInv /\ [Next]_vars => HandshakeInv'
<1>1. CASE Next
  BY <1>1, WirePreserved, TiedPreserved DEF HandshakeInv
<1>2. CASE UNCHANGED vars
  BY <1>2 DEF vars, wireVars, serverVars, clientVars, HandshakeInv, WireInv, TiedInv, Carries,
     SP!ReadyDue, SP!ReadyQueued
<1> QED  BY <1>1, <1>2

LEMMA HandshakeCorrect == Spec => []HandshakeInv
<1>1. Init => HandshakeInv
  BY DEF Init, S!Init, C!Init, HandshakeInv, WireInv, TiedInv, Carries, S!InitPC,
     SP!ReadyDue, SP!ReadyQueued, SP!InsertPC
<1>2. Spec => [](ServerFacts /\ ClientFacts)
  BY EndsCorrect, PTL DEF ServerFacts, ClientFacts
<1> QED  BY <1>1, <1>2, HandshakeStep, PTL DEF Spec

\* A client that takes itself for ready is in all three registries of its
\* server, unless the server is already cleaning up: its Ready state comes
\* from a frame the server wrote after insert_connection.
THEOREM ReadyClientIsRegistered == Spec => []ClientReadyMeansServerRegistered
<1>1. SP!RegistrationInv /\ HandshakeInv => ClientReadyMeansServerRegistered
  BY DEF HandshakeInv, TiedInv, SP!RegistrationInv, SP!ReadyPacketMeansRegistered,
     SP!ReadyQueued, SP!InitPC, S!InitPC, SP!Registries, S!Registries, ServerOver,
     ClientReadyMeansServerRegistered
<1> QED  BY <1>1, EndsCorrect, HandshakeCorrect, PTL

\* Neither end ever waits for a frame of the other without a timer: a handshake
\* whose frames are lost is closed by a watchdog.
THEOREM EndsAreGuarded == Spec => [](S!HandshakeGuarded /\ C!HandshakeGuarded)
<1>1. SP!HandshakeGuarded /\ CP!HandshakeGuarded => S!HandshakeGuarded /\ C!HandshakeGuarded
  BY DEF SP!HandshakeGuarded, CP!HandshakeGuarded, S!HandshakeGuarded, C!HandshakeGuarded
<1> QED
  BY <1>1, ServerEnd, ClientEnd, ServerAssumptions, ClientAssumptions, SP!HandshakeIsGuarded,
     CP!HandshakeIsGuarded, PTL

(***************************************************************************)
(* The handshake implements Agreement.                                     *)
(***************************************************************************)
\* The refinement mapping: what Agreement sees of the two ends.
Server == IF ServerOver \/ state \in S!Ended THEN "closed"
          ELSE IF state = "Ready" THEN "accepted" ELSE "asking"
Client == IF ClientOver \/ cState \in C!Ended THEN "closed"
          ELSE IF cState = "Ready" THEN "ready" ELSE "asking"
Announced == "Ready" \in sent

\* At most one of the four values changes in a step, and as Agreement says.
LEMMA ServerMapped ==
  ASSUME ServerFacts, ClientFacts, HandshakeInv, Next, Server' # Server
  PROVE  /\ Server' = "closed" \/ (Server = "asking" /\ cAnswered /\ Server' = "accepted")
         /\ sent' = sent
<1>1. driver = "cleanup" => driver' = "cleanup"
  BY DriversStep
<1>2. ~ UNCHANGED <<state, driver>>
  BY DEF Server, ServerOver
<1>3. sent' = sent
  BY <1>2, EndsStep
<1>4. Server' = "closed" \/ (Server = "asking" /\ cAnswered /\ Server' = "accepted")
  BY <1>1, EndsStep DEF Server, ServerOver, S!Ended, HandshakeInv, TiedInv
<1> QED  BY <1>3, <1>4

LEMMA ClientMapped ==
  ASSUME ServerFacts, ClientFacts, HandshakeInv, Next, Client' # Client
  PROVE  /\ Client' = "closed" \/ (Client = "asking" /\ Announced /\ Client' = "ready")
         /\ cAnswered' = cAnswered
<1>1. ClientOver => ClientOver'
  BY DriversStep
<1>2. ~ UNCHANGED <<cState, cDriver>>
  BY DEF Client, ClientOver
<1>3. cAnswered' = cAnswered
  BY <1>2, EndsStep
<1>4. cState' = "Ready" /\ cState # "Ready" => Announced
  <2> SUFFICES ASSUME cState' = "Ready", cState # "Ready" PROVE Announced
    OBVIOUS
  <2>1. toClient # <<>> /\ Head(toClient) = "Ready"
    BY ReadyMeansFrame
  <2> QED  BY <2>1, FrameTaken DEF HandshakeInv, WireInv, Announced
<1>5. Client' = "closed" \/ (Client = "asking" /\ Announced /\ Client' = "ready")
  BY <1>1, <1>4, EndsStep DEF Client, ClientOver, C!Ended
<1> QED  BY <1>3, <1>5

LEMMA AnnouncedMapped ==
  ASSUME ServerFacts, ClientFacts, HandshakeInv, Next, Announced' # Announced
  PROVE  /\ Server \in {"accepted", "closed"} /\ cAnswered /\ ~ Announced /\ Announced'
<1>1. "Ready" \notin sent /\ sent' = sent \cup {writing}
  BY EndsStep DEF Announced
<1>2. writing = "Ready" /\ "Ready" \in sent'
  BY <1>1, EndsStep DEF Announced
<1>3. SP!ReadyDue
  BY <1>2 DEF SP!ReadyDue, SP!ReadyQueued
<1>4. state \in {"Ready"} \cup S!Ended /\ cAnswered
  BY <1>3 DEF ServerFacts, SP!StageInv, SP!Ended, S!Ended, HandshakeInv, TiedInv
<1> QED  BY <1>1, <1>2, <1>4 DEF Server, Announced, S!Ended

\* One end moves at a time.
LEMMA OneEndMoves == Next => UNCHANGED serverVars \/ UNCHANGED clientVars
BY DEF Next, Progress, Break, ServerWrites, ClientWrites, ServerReads, ClientReads,
       ServerReadsEnd, ClientReadsEnd, ServerStep, ClientStep, ServerDriver, ServerReader,
       ServerReaderStops, ServerWriter, ServerWatchdog, ServerCloses, ServerCalled,
       ClientDriver, ClientReader, ClientReaderStops, ClientWriter, ClientWatchdog,
       ClientDisconnect

LEMMA AgreementStep ==
  ServerFacts /\ ClientFacts /\ HandshakeInv /\ [Next]_vars => [A!Next]_(A!vars)
<1> SUFFICES ASSUME ServerFacts, ClientFacts, HandshakeInv, [Next]_vars
             PROVE  [A!Next]_(A!vars)
  OBVIOUS
<1> USE DEF A!Next, A!vars, A!Answer, A!Accept, A!Announce, A!BecomeReady, A!ServerCloses,
            A!ClientCloses
<1>1. CASE UNCHANGED vars
  BY <1>1 DEF vars, serverVars, clientVars, ServerOver, ClientOver
<1>2. CASE Next /\ UNCHANGED clientVars
  <2>1. UNCHANGED <<cAnswered, Client>>
    BY <1>2 DEF clientVars, Client, ClientOver
  <2>2. CASE Server' # Server
    <3>1. Announced' = Announced
      BY <1>2, <2>2, ServerMapped DEF Announced
    <3>2. Server' = "closed" \/ (Server = "asking" /\ cAnswered /\ Server' = "accepted")
      BY <1>2, <2>2, ServerMapped
    <3> QED  BY <2>1, <2>2, <3>1, <3>2 DEF Server, Client, Announced
  <2>3. CASE Server' = Server /\ Announced' # Announced
    <3>1. Server \in {"accepted", "closed"} /\ cAnswered /\ ~ Announced /\ Announced'
      BY <1>2, <2>3, AnnouncedMapped
    <3> QED  BY <2>1, <2>3, <3>1 DEF Server, Client, Announced
  <2>4. CASE Server' = Server /\ Announced' = Announced
    BY <2>1, <2>4 DEF Server, Client, Announced
  <2> QED  BY <2>2, <2>3, <2>4
<1>3. CASE Next /\ UNCHANGED serverVars
  <2>1. UNCHANGED <<Server, Announced>>
    BY <1>3 DEF serverVars, Server, ServerOver, Announced
  <2>2. CASE Client' # Client
    <3>1. cAnswered' = cAnswered
      BY <1>3, <2>2, ClientMapped
    <3>2. Client' = "closed" \/ (Client = "asking" /\ Announced /\ Client' = "ready")
      BY <1>3, <2>2, ClientMapped
    <3> QED  BY <2>1, <2>2, <3>1, <3>2 DEF Server, Client, Announced
  <2>3. CASE Client' = Client /\ cAnswered' # cAnswered
    <3>1. cAnswered \in BOOLEAN /\ (cAnswered => cAnswered')
      BY <1>3, EndsStep DEF ClientFacts, CP!TypeOK
    <3>2. cAnswered' = (cAnswered \/ cWriting = "Init")
      BY <1>3, <2>3, EndsStep
    <3>3. ~ cAnswered /\ cAnswered' = TRUE
      BY <2>3, <3>1, <3>2
    <3> QED  BY <2>1, <2>3, <3>3 DEF Server, Client, Announced
  <2>4. CASE Client' = Client /\ cAnswered' = cAnswered
    BY <2>1, <2>4 DEF Server, Client, Announced
  <2> QED  BY <2>2, <2>3, <2>4
<1> QED  BY <1>1, <1>2, <1>3, OneEndMoves

\* The two ends together implement Agreement, whatever breaks, times out or
\* closes in between: the server accepts only a client that answered, the
\* Ready packet goes out only then, and the client is ready only after that.
THEOREM HandshakeAgrees == Spec => Agrees
<1>1. Init => A!Init
  BY DEF Init, S!Init, C!Init, A!Init, ServerOver, ClientOver, S!Ended, C!Ended
<1>2. Spec => [](ServerFacts /\ ClientFacts)
  BY EndsCorrect, PTL DEF ServerFacts, ClientFacts
<1> QED  BY <1>1, <1>2, AgreementStep, HandshakeCorrect, PTL DEF Spec, Agrees, A!Spec

=============================================================================
