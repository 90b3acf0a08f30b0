-------------------------- MODULE ClientSessionProofs --------------------------
(***************************************************************************)
(* Theorems about ClientSession, for every channel capacity, every choice  *)
(* of configured handlers and every number of heartbeats.                  *)
(***************************************************************************)
EXTENDS ClientSession, TLAPS

\* The groups of variables are always expanded.
USE DEF readVars, writeVars, bgVars, callVars, taskVars

(***************************************************************************)
(* Type correctness.                                                       *)
(***************************************************************************)
\* The channel's part of TypeOK.
ChannelTypeOK ==
  /\ chan \in Seq(Message) /\ Len(chan) <= Capacity
  /\ writer \in {"none", "running", "done"} /\ writing \in Message \cup {"none"}
  /\ writeAborted \in BOOLEAN /\ answered \in BOOLEAN

\* The part of TypeOK about the driver, the reader and the state.
StreamTypeOK ==
  /\ state \in SessionState /\ driver \in DriverPC /\ reader \in ReaderPC
  /\ readAborted \in BOOLEAN

\* The rest of TypeOK: watchdogs, ping task, calls and handlers.
CallTypeOK ==
  /\ cancelled \in BOOLEAN
  /\ watch \in [Watchdogs -> {"none", "sleep", "done"}]
  /\ ping \in {"none", "sleep", "send", "close", "last_close", "done"} /\ pings \in 0..MaxPings
  /\ emitting \in BOOLEAN
  /\ closing \in [CloseCallers -> {"idle", "get", "store", "try_send"}]
  /\ dropped \in BOOLEAN /\ task \in BOOLEAN

\* Messages are not the marker of an idle writer.
LEMMA Kinds ==
  /\ "none" \notin Message
  /\ "Init" \in Message /\ "Event" \in Message /\ "Ping" \in Message /\ "Close" \in Message
  BY DEF Message

\* send() waits for room, try_send() gives up, the writer only takes out.
LEMMA ChannelTypeStep == ChannelTypeOK /\ [Next]_vars => ChannelTypeOK'
<1> SUFFICES ASSUME ChannelTypeOK, [Next]_vars PROVE ChannelTypeOK'
  OBVIOUS
<1> USE DEF ChannelTypeOK
<1>1. ASSUME NEW m \in Message, Send(m) \/ SendFails \/ TrySend(m) PROVE ChannelTypeOK'
  BY <1>1, SizesAssumption DEF Send, SendFails, TrySend, HasRoom, ChanOnly
<1>2. CASE WriterStep \/ WriteSend
  <2>1. CASE WriteRecv
    BY <2>1, SizesAssumption DEF WriteRecv, WriterOnly
  <2>a. <<>> \in Seq(Message) /\ Len(<<>>) <= Capacity
    BY SizesAssumption
  <2>b. ASSUME WriteEnd, answered' \in BOOLEAN PROVE ChannelTypeOK'
    BY <2>a, <2>b DEF WriteEnd, WriterOnly
  <2>2. CASE WriteSend
    BY <2>2, <2>b DEF WriteSend, WriterOnly
  <2>3. CASE WriteFails \/ WriteStops
    BY <2>3, <2>b DEF WriteFails, WriteStops
  <2> QED  BY <1>2, <2>1, <2>2, <2>3 DEF WriterStep
<1>3. CASE DriverStep
  <2>1. CASE CleanupStep
    BY <2>1 DEF CleanupStep, CleanupClosing, CleanupAbort, CleanupCancel, CleanupOnClose,
       CleanupClosed, DriverOnly
  <2>2. CASE DriverStreamEnds \/ DriverCancelled \/ DriverGraceful \/ DriverGracefulTimeout
    BY <2>2 DEF DriverStreamEnds, DriverCancelled, DriverGraceful, DriverGracefulTimeout,
       StreamEnds, SelectOnly
  <2> QED
    BY <1>3, <2>1, <2>2 DEF DriverStep, DriverInit, DriverInitWatchdog, DriverPing,
       DriverSpawn, DriverAwait, DriverOnly
<1>4. CASE HandlePacket \/ ReadStops
  <2>1. CASE ReadSendInit
    BY <2>1, <1>1, Kinds DEF ReadSendInit
  <2> QED
    BY <1>4, <2>1 DEF HandlePacket, ReadAbortInit, ReadInitHandler, ReadAwaitReady,
       ReadSpawnWatchdog, ReadAbortReady, ReadOnSessionReady, ReadStops, ReadPlain,
       ReadTransition
<1>5. CASE ReadEnd \/ ReadEvent \/ ReadDisconnect \/ ReadInit \/ ReadReady
  BY <1>5 DEF ReadEnd, ReadEvent, ReadDisconnect, ReadInit, ReadReady, ReadPlain, ReadTransition
<1>6. CASE PingStep
  BY <1>6, <1>1, Kinds DEF PingStep, PingWakes, PingSend, PingClosed
<1>7. ASSUME NEW w \in Watchdogs, WatchdogFires(w) PROVE ChannelTypeOK'
  BY <1>7 DEF WatchdogFires
<1>8. ASSUME NEW c \in CloseCallers, CloseStep(c) PROVE ChannelTypeOK'
  BY <1>8, <1>1, Kinds DEF CloseStep, CloseGet, CloseStore, CloseTrySend
<1>9. CASE Disconnect \/ Emit \/ EmitSend \/ EmitStops
  BY <1>9, <1>1, Kinds DEF Disconnect, Emit, EmitSend, EmitStops
<1>10. CASE TaskReturns \/ UNCHANGED vars
  BY <1>10 DEF TaskReturns, vars
<1> QED
  BY <1>2, <1>3, <1>4, <1>5, <1>6, <1>7, <1>8, <1>9, <1>10 DEF Next, Inner

\* No step takes the state or the program counter of the driver or of the
\* reader out of its set.
LEMMA StreamTypeStep == StreamTypeOK /\ [Next]_vars => StreamTypeOK'
<1> SUFFICES ASSUME StreamTypeOK, [Next]_vars PROVE StreamTypeOK'
  OBVIOUS
<1> USE DEF StreamTypeOK, SessionState, DriverPC, ReaderPC
<1>1. CASE WriterStep \/ WriteSend
  BY <1>1 DEF WriterStep, WriteRecv, WriteSend, WriteFails, WriteStops, WriteEnd, WriterOnly
<1>2. CASE DriverStep
  <2>1. CASE CleanupStep
    BY <2>1 DEF CleanupStep, CleanupClosing, CleanupAbort, CleanupCancel, CleanupOnClose,
       CleanupClosed, DriverOnly
  <2>2. CASE DriverStreamEnds \/ DriverCancelled \/ DriverGraceful \/ DriverGracefulTimeout
    BY <2>2 DEF DriverStreamEnds, DriverCancelled, DriverGraceful, DriverGracefulTimeout,
       StreamEnds, SelectOnly
  <2> QED
    BY <1>2, <2>1, <2>2 DEF DriverStep, DriverInit, DriverInitWatchdog, DriverPing,
       DriverSpawn, DriverAwait, DriverOnly
<1>3. CASE HandlePacket \/ ReadStops
  BY <1>3 DEF HandlePacket, ReadAbortInit, ReadInitHandler, ReadAwaitReady,
     ReadSpawnWatchdog, ReadSendInit, ReadAbortReady, ReadOnSessionReady, ReadStops, ReadPlain,
     ReaderOnly, ReadTransition
<1>4. CASE ReadEnd \/ ReadEvent \/ ReadDisconnect \/ ReadInit \/ ReadReady
  BY <1>4 DEF ReadEnd, ReadEvent, ReadDisconnect, ReadInit, ReadReady, ReadPlain, ReaderOnly,
     ReadTransition
<1>5. CASE PingStep
  BY <1>5 DEF PingStep, PingWakes, PingSend, PingClosed, BgOnly
<1>6. ASSUME NEW w \in Watchdogs, WatchdogFires(w) PROVE StreamTypeOK'
  BY <1>6 DEF WatchdogFires, BgOnly
<1>7. ASSUME NEW c \in CloseCallers, CloseStep(c) PROVE StreamTypeOK'
  BY <1>7 DEF CloseStep, CloseGet, CloseStore, CloseTrySend, CloserOnly
<1>8. CASE Disconnect \/ Emit \/ EmitSend \/ EmitStops
  BY <1>8 DEF Disconnect, Emit, EmitSend, EmitStops, RuntimeOnly
<1>9. CASE TaskReturns \/ UNCHANGED vars
  BY <1>9 DEF TaskReturns, vars
<1> QED
  BY <1>1, <1>2, <1>3, <1>4, <1>5, <1>6, <1>7, <1>8, <1>9 DEF Next, Inner

\* No step breaks the types of the watchdogs, the ping task and the calls.
LEMMA CallTypeStep == CallTypeOK /\ [Next]_vars => CallTypeOK'
<1> SUFFICES ASSUME CallTypeOK, [Next]_vars PROVE CallTypeOK'
  OBVIOUS
<1> USE DEF CallTypeOK
<1>a. "driver" \in CloseCallers /\ "ping" \in CloseCallers /\ Watchdogs \subseteq CloseCallers
  BY DEF CloseCallers
<1>b. "init" \in Watchdogs /\ "ready" \in Watchdogs
  BY DEF Watchdogs
<1>c. ASSUME NEW t, AbortLockedTask(t)
      PROVE  /\ watch' \in [Watchdogs -> {"none", "sleep", "done"}]
             /\ ping' \in {"none", "sleep", "send", "close", "last_close", "done"}
             /\ pings' \in 0..MaxPings
  BY <1>c DEF AbortLockedTask
<1>1. CASE WriterStep \/ WriteSend
  BY <1>1 DEF WriterStep, WriteRecv, WriteSend, WriteFails, WriteStops, WriteEnd, WriterOnly
<1>2. CASE DriverStep
  <2>1. CASE CleanupStep
    BY <2>1, <1>c DEF CleanupStep, CleanupClosing, CleanupAbort, CleanupCancel, CleanupOnClose,
       CleanupClosed, DriverOnly
  <2>2. CASE DriverStreamEnds \/ DriverCancelled \/ DriverGraceful \/ DriverGracefulTimeout
    BY <2>2, <1>a DEF DriverStreamEnds, DriverCancelled, DriverGraceful, DriverGracefulTimeout,
       SelectOnly
  <2> QED
    BY <1>2, <2>1, <2>2, <1>b DEF DriverStep, DriverInit, DriverInitWatchdog, DriverPing,
       DriverSpawn, DriverAwait, DriverOnly
<1>3. CASE HandlePacket \/ ReadStops
  BY <1>3, <1>b, <1>c DEF HandlePacket, ReadAbortInit, ReadInitHandler, ReadAwaitReady,
     ReadSpawnWatchdog, ReadSendInit, ReadAbortReady, ReadOnSessionReady, ReadStops, ReadPlain,
     ReaderOnly, ReadTransition
<1>4. CASE ReadEnd \/ ReadEvent \/ ReadDisconnect \/ ReadInit \/ ReadReady
  BY <1>4 DEF ReadEnd, ReadEvent, ReadDisconnect, ReadInit, ReadReady, ReadPlain, ReaderOnly,
     ReadTransition
<1>5. CASE PingStep
  BY <1>5, <1>a, SizesAssumption DEF PingStep, PingWakes, PingSend, PingClosed, BgOnly
<1>6. ASSUME NEW w \in Watchdogs, WatchdogFires(w) PROVE CallTypeOK'
  BY <1>6, <1>a DEF WatchdogFires, BgOnly
<1>7. ASSUME NEW c \in CloseCallers, CloseStep(c) PROVE CallTypeOK'
  BY <1>7 DEF CloseStep, CloseGet, CloseStore, CloseTrySend, CloserOnly
<1>8. CASE Disconnect \/ Emit \/ EmitSend \/ EmitStops
  BY <1>8 DEF Disconnect, Emit, EmitSend, EmitStops, RuntimeOnly
<1>9. CASE TaskReturns \/ UNCHANGED vars
  BY <1>9 DEF TaskReturns, vars
<1> QED
  BY <1>1, <1>2, <1>3, <1>4, <1>5, <1>6, <1>7, <1>8, <1>9 DEF Next, Inner

\* Every variable of the session keeps its type and the channel its bound.
THEOREM TypeCorrect == Spec => []TypeOK
<1>1. Init => ChannelTypeOK /\ StreamTypeOK /\ CallTypeOK
  <2> SUFFICES ASSUME Init PROVE ChannelTypeOK /\ StreamTypeOK /\ CallTypeOK
    OBVIOUS
  <2>1. ChannelTypeOK
    <3>1. <<>> \in Seq(Message) /\ Len(<<>>) <= Capacity
      BY SizesAssumption
    <3> QED  BY <3>1 DEF Init, ChannelTypeOK
  <2>2. StreamTypeOK
    BY DEF Init, StreamTypeOK, SessionState, DriverPC, ReaderPC
  <2>3. CallTypeOK
    <3>1. 0 \in 0..MaxPings
      BY SizesAssumption
    <3> QED  BY <3>1 DEF Init, CallTypeOK
  <2> QED  BY <2>1, <2>2, <2>3
<1>2. ChannelTypeOK /\ StreamTypeOK /\ CallTypeOK => TypeOK
  BY DEF ChannelTypeOK, StreamTypeOK, CallTypeOK, TypeOK
<1> QED
  BY <1>1, <1>2, ChannelTypeStep, StreamTypeStep, CallTypeStep, PTL DEF Spec

(***************************************************************************)
(* Where the session is in its handshake.                                  *)
(***************************************************************************)
StartPC == {"init", "init_watchdog", "ping", "spawn"}

\* Before init() has stored AwaitingInit nobody else works on the session,
\* and before the stream tasks are spawned there is neither of them.
StartInv ==
  /\ driver \in StartPC => reader = "none" /\ writer = "none" /\ writing = "none"
  /\ driver = "init" =>
       /\ state = "Created" /\ ping = "none"
       /\ watch = [w \in Watchdogs |-> "none"] /\ closing = [c \in CloseCallers |-> "idle"]

\* The reader is in the part of a packet handler that fits the state, unless
\* somebody has closed the session meanwhile.
ReaderInv ==
  /\ reader = "none" => state \in {"Created", "AwaitingInit"} \cup Ended
  /\ reader \in {"abort_init", "init_handler", "await_ready"} =>
       state \in {"Initiating"} \cup Ended
  /\ reader \in {"spawn_watchdog", "send_init"} => state \in {"AwaitingReady"} \cup Ended
  /\ reader \in {"abort_ready", "on_session_ready"} => state \in {"Ready"} \cup Ended

HandshakeInv == StartInv /\ ReaderInv

\* The compare-and-swaps of the packet handlers keep state and reader in
\* step; everybody else only stores Closing or Closed.
LEMMA HandshakeStep == TypeOK /\ HandshakeInv /\ [Next]_vars => HandshakeInv'
<1> SUFFICES ASSUME TypeOK, HandshakeInv, [Next]_vars PROVE HandshakeInv'
  OBVIOUS
<1> USE DEF HandshakeInv, StartInv, ReaderInv, StartPC, Ended
<1>1. CASE WriterStep \/ WriteSend
  BY <1>1 DEF WriterStep, WriteRecv, WriteSend, WriteFails, WriteStops, WriteEnd, WriterOnly, TypeOK
<1>2. CASE DriverStep
  <2>1. CASE CleanupStep
    BY <2>1 DEF CleanupStep, CleanupClosing, CleanupAbort, CleanupCancel, CleanupOnClose,
       CleanupClosed, DriverOnly
  <2>2. CASE DriverStreamEnds \/ DriverCancelled \/ DriverGraceful \/ DriverGracefulTimeout
    BY <2>2 DEF DriverStreamEnds, DriverCancelled, DriverGraceful, DriverGracefulTimeout,
       StreamEnds, SelectOnly
  <2> QED
    BY <1>2, <2>1, <2>2 DEF DriverStep, DriverInit, DriverInitWatchdog, DriverPing,
       DriverSpawn, DriverAwait, DriverOnly
<1>3. CASE HandlePacket \/ ReadStops
  BY <1>3 DEF HandlePacket, ReadAbortInit, ReadInitHandler, ReadAwaitReady,
     ReadSpawnWatchdog, ReadSendInit, ReadAbortReady, ReadOnSessionReady, ReadStops, ReadPlain,
     ReaderOnly, ReadTransition, ReadAwaits
<1>4. CASE ReadEnd \/ ReadEvent \/ ReadDisconnect \/ ReadInit \/ ReadReady
  BY <1>4 DEF ReadEnd, ReadEvent, ReadDisconnect, ReadInit, ReadReady, ReadPlain, ReaderOnly,
     ReadTransition
<1>5. CASE PingStep
  BY <1>5 DEF PingStep, PingWakes, PingSend, PingClosed, BgOnly, Send, SendFails, ChanOnly
<1>6. ASSUME NEW w \in Watchdogs, WatchdogFires(w) PROVE HandshakeInv'
  BY <1>6 DEF WatchdogFires, BgOnly
<1>7. ASSUME NEW c \in CloseCallers, CloseStep(c) PROVE HandshakeInv'
  BY <1>7 DEF CloseStep, CloseGet, CloseStore, CloseTrySend, CloserOnly, TrySend, ChanOnly
<1>8. CASE Disconnect \/ Emit \/ EmitSend \/ EmitStops
  BY <1>8 DEF Disconnect, Emit, EmitSend, EmitStops, RuntimeOnly, Send, SendFails, ChanOnly
<1>9. CASE TaskReturns \/ UNCHANGED vars
  BY <1>9 DEF TaskReturns, vars
<1> QED
  BY <1>1, <1>2, <1>3, <1>4, <1>5, <1>6, <1>7, <1>8, <1>9 DEF Next, Inner

\* The reader never handles a packet of another stage than the state says.
LEMMA HandshakeCorrect == Spec => []HandshakeInv
<1>1. Init => HandshakeInv
  BY DEF Init, HandshakeInv, StartInv, ReaderInv
<1> QED  BY <1>1, HandshakeStep, TypeCorrect, PTL DEF Spec

\* A step leaves `state` alone, advances it by the compare-and-swap of a
\* packet handler, begins the handshake, or stores Closing or Closed.
LEMMA StateStep ==
  [Next]_vars =>
    \/ state' \in {state} \cup Ended
    \/ driver = "init" /\ state' = "AwaitingInit"
    \/ \/ state = "AwaitingInit" /\ state' = "Initiating"
       \/ state = "Initiating" /\ state' = "AwaitingReady"
       \/ state = "AwaitingReady" /\ state' = "Ready"
<1> SUFFICES ASSUME [Next]_vars, state' \notin {state} \cup Ended
             PROVE  \/ driver = "init" /\ state' = "AwaitingInit"
                    \/ state = "AwaitingInit" /\ state' = "Initiating"
                    \/ state = "Initiating" /\ state' = "AwaitingReady"
                    \/ state = "AwaitingReady" /\ state' = "Ready"
  OBVIOUS
<1> USE DEF Ended
<1>1. ~ (WriterStep \/ WriteSend)
  BY DEF WriterStep, WriteRecv, WriteSend, WriteFails, WriteStops, WriteEnd, WriterOnly
<1>2. ~ CleanupStep
  BY DEF CleanupStep, CleanupClosing, CleanupAbort, CleanupCancel, CleanupOnClose,
     CleanupClosed, DriverOnly
<1>3. CASE DriverStep
  BY <1>2, <1>3 DEF DriverStep, DriverInit, DriverInitWatchdog, DriverPing,
     DriverSpawn, DriverAwait, DriverOnly, DriverStreamEnds, DriverCancelled, DriverGraceful,
     DriverGracefulTimeout, SelectOnly
<1>4. CASE HandlePacket \/ ReadStops
  BY <1>4 DEF HandlePacket, ReadAbortInit, ReadInitHandler, ReadAwaitReady, ReadSpawnWatchdog,
     ReadSendInit, ReadAbortReady, ReadOnSessionReady, ReadStops, ReadPlain, ReadTransition
<1>5. CASE ReadEnd \/ ReadEvent \/ ReadDisconnect \/ ReadInit \/ ReadReady
  BY <1>5 DEF ReadEnd, ReadEvent, ReadDisconnect, ReadInit, ReadReady, ReadPlain, ReadTransition
<1>6. ~ PingStep /\ \A w \in Watchdogs : ~ WatchdogFires(w)
  BY DEF PingStep, PingWakes, PingSend, PingClosed, WatchdogFires, BgOnly
<1>7. \A c \in CloseCallers : ~ CloseStep(c)
  BY DEF CloseStep, CloseGet, CloseStore, CloseTrySend
<1>8. ~ (Disconnect \/ Emit \/ EmitSend \/ EmitStops \/ TaskReturns \/ UNCHANGED vars)
  BY DEF Disconnect, Emit, EmitSend, EmitStops, RuntimeOnly, TaskReturns, vars
<1> QED  BY <1>1, <1>3, <1>4, <1>5, <1>6, <1>7, <1>8 DEF Next, Inner

\* A session that is Closing or Closed never leaves these two states, in
\* whatever order the watchdogs, the ping task, the driver and cleanup() close
\* it.
THEOREM SessionNeverResurrected == Spec => NoResurrection
<1>1. HandshakeInv /\ [Next]_vars => [(state \in Ended) => (state' \in Ended)]_vars
  BY StateStep DEF HandshakeInv, StartInv, Ended
<1> QED  BY <1>1, HandshakeCorrect, PTL DEF Spec, NoResurrection

(***************************************************************************)
(* The Init answer before every Event frame.                               *)
(***************************************************************************)
\* The answer is on its way or has arrived.
AnswerPlaced == answered \/ writing = "Init" \/ \E j \in DOMAIN chan : chan[j] = "Init"

\* Whoever may send an event, or make the session Ready, comes after the
\* answer, or finds the channel closed.
AnswerInv ==
  emitting \/ state = "Ready" \/ (state = "AwaitingReady" /\ reader = "next")
    => writer = "done" \/ AnswerPlaced

\* The inductive invariant.
EventsInv == AnswerInv /\ EventsAfterInit

\* Appending to the channel keeps the answer placed and the order right, if an
\* Event frame is only appended behind the answer.
LEMMA SendKeepsOrder ==
  ASSUME ChannelTypeOK, EventsAfterInit, NEW m \in Message, Send(m) \/ TrySend(m),
         m = "Event" => AnswerPlaced
  PROVE  EventsAfterInit' /\ (AnswerPlaced => AnswerPlaced') /\ writer' = writer
<1>1. UNCHANGED <<writer, writing, answered>> /\ chan' \in {chan, Append(chan, m)}
  BY DEF Send, TrySend, ChanOnly
<1>2. CASE chan' = chan
  BY <1>1, <1>2 DEF EventsAfterInit, AnswerPlaced
<1>3. CASE chan' = Append(chan, m)
  <2>1. /\ DOMAIN chan = 1..Len(chan) /\ DOMAIN chan' = 1..(Len(chan) + 1) /\ Len(chan) \in Nat
        /\ \A i \in 1..Len(chan) : chan'[i] = chan[i]
        /\ chan'[Len(chan) + 1] = m
    BY <1>3 DEF ChannelTypeOK
  <2>2. AnswerPlaced => AnswerPlaced'
    BY <1>1, <2>1 DEF AnswerPlaced
  <2>3. EventsAfterInit'
    <3>1. writing' = "Event" => answered'
      BY <1>1 DEF EventsAfterInit
    <3>2. ASSUME NEW i \in DOMAIN chan', chan'[i] = "Event"
          PROVE  answered \/ writing = "Init" \/ \E j \in 1..(i - 1) : chan'[j] = "Init"
      <4>1. CASE i \in 1..Len(chan)
        BY <4>1, <2>1, <3>2 DEF EventsAfterInit
      <4>2. CASE i = Len(chan) + 1
        BY <4>2, <2>1, <3>2 DEF AnswerPlaced
      <4> QED  BY <4>1, <4>2, <2>1
    <3> QED  BY <1>1, <3>1, <3>2 DEF EventsAfterInit
  <2> QED  BY <1>1, <2>2, <2>3
<1> QED  BY <1>1, <1>2, <1>3

\* So does the writer, which takes the oldest message and remembers that it
\* has handed over the answer, or ends and closes the channel.
LEMMA WriterKeepsOrder ==
  ASSUME ChannelTypeOK, EventsAfterInit, WriterStep \/ WriteSend
  PROVE  EventsAfterInit' /\ (AnswerPlaced => AnswerPlaced' \/ writer' = "done")
<1>1. ASSUME WriteEnd PROVE EventsAfterInit' /\ writer' = "done"
  <2>1. chan' = <<>> /\ writing' = "none" /\ writer' = "done"
    BY <1>1 DEF WriteEnd
  <2>2. DOMAIN <<>> = {}
    OBVIOUS
  <2> QED  BY <2>1, <2>2 DEF EventsAfterInit
<1>2. CASE WriteRecv
  <2>1. /\ writing = "none" /\ writing' = Head(chan) /\ chan' = Tail(chan) /\ answered' = answered
        /\ chan # <<>>
    BY <1>2 DEF WriteRecv
  <2>2. /\ Len(chan) \in Nat \ {0} /\ DOMAIN chan = 1..Len(chan) /\ writing' = chan[1]
        /\ DOMAIN chan' = 1..(Len(chan) - 1)
        /\ \A i \in 1..(Len(chan) - 1) : chan'[i] = chan[i + 1]
    BY <2>1 DEF ChannelTypeOK
  <2>3. writing' = "Event" => answered'
    BY <2>1, <2>2 DEF EventsAfterInit
  <2>4. ASSUME NEW i \in DOMAIN chan', chan'[i] = "Event"
        PROVE  answered' \/ writing' = "Init" \/ \E j \in 1..(i - 1) : chan'[j] = "Init"
    <3>1. i + 1 \in DOMAIN chan /\ chan[i + 1] = "Event"
      BY <2>2, <2>4
    <3>2. CASE answered
      BY <3>2, <2>1
    <3>3. ASSUME NEW j \in 1..i, chan[j] = "Init"
          PROVE  writing' = "Init" \/ \E k \in 1..(i - 1) : chan'[k] = "Init"
      <4>1. CASE j = 1
        BY <4>1, <3>3, <2>2
      <4>2. CASE j # 1
        <5>1. j - 1 \in 1..(i - 1) /\ chan'[j - 1] = "Init"
          BY <4>2, <3>3, <2>2, <2>4
        <5> QED  BY <5>1
      <4> QED  BY <4>1, <4>2
    <3>4. (i + 1) - 1 = i
      BY <2>2
    <3> QED  BY <3>1, <3>2, <3>3, <3>4, <2>1 DEF EventsAfterInit
  <2>5. ASSUME NEW j \in DOMAIN chan, chan[j] = "Init" PROVE AnswerPlaced'
    <3>1. CASE j = 1
      BY <3>1, <2>5, <2>2 DEF AnswerPlaced
    <3>2. CASE j # 1
      <4>1. j - 1 \in DOMAIN chan' /\ chan'[j - 1] = "Init"
        BY <3>2, <2>5, <2>2
      <4> QED  BY <4>1 DEF AnswerPlaced
    <3> QED  BY <3>1, <3>2
  <2>6. AnswerPlaced => AnswerPlaced'
    BY <2>1, <2>5 DEF AnswerPlaced
  <2> QED  BY <2>3, <2>4, <2>6 DEF EventsAfterInit
<1>3. CASE WriteSend
  <2>1. CASE writing # "Close"
    <3>1. writing' = "none" /\ chan' = chan /\ answered' = (answered \/ writing = "Init")
      BY <1>3, <2>1 DEF WriteSend
    <3> QED  BY <3>1 DEF EventsAfterInit, AnswerPlaced
  <2> QED  BY <1>1, <1>3, <2>1 DEF WriteSend
<1> QED  BY <1>1, <1>2, <1>3 DEF WriterStep, WriteFails, WriteStops

\* Every step preserves the invariant.  Only the sender and the reader have to
\* do with it beyond the channel.
LEMMA EventsStep ==
  TypeOK /\ HandshakeInv /\ EventsInv /\ [Next]_vars => EventsInv'
<1> SUFFICES ASSUME TypeOK, HandshakeInv, EventsInv, [Next]_vars PROVE EventsInv'
  OBVIOUS
<1>a. ChannelTypeOK /\ EventsAfterInit /\ AnswerInv
  BY DEF TypeOK, ChannelTypeOK, EventsInv
<1>b. ASSUME UNCHANGED <<chan, writing, answered>>
      PROVE  EventsAfterInit' /\ (AnswerPlaced => AnswerPlaced')
  BY <1>a, <1>b DEF EventsAfterInit, AnswerPlaced
<1>c. ASSUME NEW m \in Message \ {"Event"}, Send(m) \/ TrySend(m)
      PROVE  EventsAfterInit' /\ (AnswerPlaced => AnswerPlaced') /\ writer' = writer
  BY <1>a, <1>c, SendKeepsOrder
<1>d. SendFails => UNCHANGED <<chan, writing, answered, writer>>
  BY DEF SendFails
<1>1. CASE WriterStep \/ WriteSend
  <2>1. UNCHANGED <<state, reader, emitting>> /\ (writer = "done" => writer' = "done")
    BY <1>1 DEF WriterStep, WriteRecv, WriteSend, WriteFails, WriteStops, WriteEnd, WriterOnly
  <2> QED  BY <1>1, <1>a, <2>1, WriterKeepsOrder DEF EventsInv, AnswerInv
<1>2. CASE DriverStep
  <2>1. UNCHANGED <<chan, writing, answered, emitting>>
    BY <1>2 DEF DriverStep, DriverInit, DriverInitWatchdog, DriverPing, DriverSpawn,
       DriverStreamEnds, DriverCancelled, DriverGraceful, DriverGracefulTimeout, DriverAwait,
       DriverOnly, SelectOnly, CleanupStep, CleanupClosing, CleanupAbort, CleanupCancel,
       CleanupOnClose, CleanupClosed
  <2>2. CASE DriverSpawn
    <3>1. reader' = "next" /\ state' = state /\ writer = "none"
          /\ state \in {"Created", "AwaitingInit"} \cup Ended
      BY <2>2 DEF DriverSpawn, HandshakeInv, StartInv, StartPC, ReaderInv
    <3> QED  BY <1>a, <1>b, <2>1, <3>1 DEF EventsInv, AnswerInv, Ended
  <2>3. CASE ~ DriverSpawn
    <3>1. UNCHANGED <<reader, writer>> /\ state' \in {state, "AwaitingInit"} \cup Ended
      BY <1>2, <2>3 DEF DriverStep, DriverInit, DriverInitWatchdog, DriverPing,
         DriverStreamEnds, DriverCancelled, DriverGraceful, DriverGracefulTimeout, DriverAwait,
         DriverOnly, SelectOnly, CleanupStep, CleanupClosing, CleanupAbort, CleanupCancel,
         CleanupOnClose, CleanupClosed, Ended
    <3> QED  BY <1>a, <1>b, <2>1, <3>1 DEF EventsInv, AnswerInv, Ended
  <2> QED  BY <2>2, <2>3
<1>3. CASE HandlePacket \/ ReadStops
  <2>1. CASE ReadSendInit
    <3>1. CASE Send("Init")
      <4>1. AnswerPlaced'
        BY <3>1, <1>a DEF Send, AnswerPlaced, ChannelTypeOK
      <4> QED  BY <3>1, <4>1, <1>c, Kinds DEF EventsInv, AnswerInv
    <3>2. CASE SendFails /\ reader' = "done"
      BY <2>1, <3>2, <1>a, <1>b, <1>d DEF ReadSendInit, ReaderOnly, EventsInv, AnswerInv
    <3> QED  BY <2>1, <3>1, <3>2 DEF ReadSendInit
  <2>2. CASE ~ ReadSendInit
    <3>1. UNCHANGED <<chan, writing, answered, writer, emitting>>
      BY <1>3, <2>2 DEF HandlePacket, ReadAbortInit, ReadInitHandler, ReadAwaitReady,
         ReadSpawnWatchdog, ReadAbortReady, ReadOnSessionReady, ReadStops, ReadPlain,
         ReaderOnly, ReadTransition
    <3>2. /\ state' = "Ready" => state = "Ready"
          /\ reader' = "next" => reader = "on_session_ready" /\ state' = state
      BY <1>3, <2>2 DEF HandlePacket, ReadAbortInit, ReadInitHandler, ReadAwaitReady,
         ReadSpawnWatchdog, ReadAbortReady, ReadOnSessionReady, ReadStops, ReadPlain,
         ReaderOnly, ReadTransition
    <3> QED  BY <1>a, <1>b, <3>1, <3>2 DEF EventsInv, AnswerInv, HandshakeInv, ReaderInv, Ended
  <2> QED  BY <2>1, <2>2
<1>4. CASE ReadEnd \/ ReadEvent \/ ReadDisconnect \/ ReadInit \/ ReadReady
  <2>1. UNCHANGED <<chan, writing, answered, writer, emitting>> /\ reader = "next"
    BY <1>4 DEF ReadEnd, ReadEvent, ReadDisconnect, ReadInit, ReadReady, ReadPlain, ReaderOnly,
       ReadTransition
  <2>2. /\ state' = "AwaitingReady" => state = "AwaitingReady"
        /\ state' = "Ready" => state \in {"Ready", "AwaitingReady"}
    BY <1>4 DEF ReadEnd, ReadEvent, ReadDisconnect, ReadInit, ReadReady, ReadPlain, ReadTransition
  <2> QED  BY <1>a, <1>b, <2>1, <2>2 DEF EventsInv, AnswerInv
<1>5. CASE PingStep
  <2>1. UNCHANGED <<state, reader, emitting>>
    BY <1>5 DEF PingStep, PingWakes, PingSend, PingClosed, BgOnly
  <2>2. Send("Ping") \/ UNCHANGED <<chan, writing, answered, writer>>
    BY <1>5, <1>d DEF PingStep, PingWakes, PingSend, PingClosed
  <2> QED  BY <1>a, <1>b, <1>c, <2>1, <2>2, Kinds DEF EventsInv, AnswerInv
<1>6. ASSUME NEW w \in Watchdogs, WatchdogFires(w) PROVE EventsInv'
  BY <1>6, <1>a, <1>b DEF WatchdogFires, BgOnly, EventsInv, AnswerInv
<1>7. ASSUME NEW c \in CloseCallers, CloseStep(c) PROVE EventsInv'
  <2>1. UNCHANGED <<reader, emitting>> /\ state' \in {state, "Closing"}
    BY <1>7 DEF CloseStep, CloseGet, CloseStore, CloseTrySend, CloserOnly
  <2>2. TrySend("Close") \/ UNCHANGED <<chan, writing, answered, writer>>
    BY <1>7 DEF CloseStep, CloseGet, CloseStore, CloseTrySend
  <2> QED  BY <1>a, <1>b, <1>c, <2>1, <2>2, Kinds DEF EventsInv, AnswerInv
<1>8. CASE Disconnect \/ Emit \/ EmitSend \/ EmitStops
  <2>1. UNCHANGED <<state, reader>>
    BY <1>8 DEF Disconnect, Emit, EmitSend, EmitStops, RuntimeOnly
  <2>2. CASE EmitSend /\ Send("Event")
    <3>1. emitting /\ writer # "done" /\ AnswerPlaced
      BY <2>2, <1>a DEF EmitSend, Send, HasRoom, AnswerInv
    <3>2. EventsAfterInit' /\ AnswerPlaced'
      BY <1>a, <2>2, <3>1, SendKeepsOrder, Kinds
    <3> QED  BY <3>2 DEF EventsInv, AnswerInv
  <2>3. CASE ~ (EmitSend /\ Send("Event"))
    <3>1. /\ UNCHANGED <<chan, writing, answered, writer>>
          /\ emitting' => emitting \/ state = "Ready"
      BY <1>8, <2>3, <1>d DEF Disconnect, Emit, EmitSend, EmitStops
    <3> QED  BY <1>a, <1>b, <2>1, <3>1 DEF EventsInv, AnswerInv
  <2> QED  BY <2>2, <2>3
<1>9. CASE TaskReturns \/ UNCHANGED vars
  BY <1>9, <1>a, <1>b DEF TaskReturns, vars, EventsInv, AnswerInv
<1> QED
  BY <1>1, <1>2, <1>3, <1>4, <1>5, <1>6, <1>7, <1>8, <1>9 DEF Next, Inner

\* The server gets no Event frame ahead of the answer to its Init packet,
\* although the runtime's sender uses the session as soon as it is stored.
THEOREM EventsFollowInit == Spec => []EventsAfterInit
<1>1. Init => EventsInv
  <2> SUFFICES ASSUME Init PROVE EventsInv
    OBVIOUS
  <2>1. chan = <<>> /\ DOMAIN <<>> = {} /\ writing = "none" /\ ~ emitting /\ state = "Created"
    BY DEF Init
  <2> QED  BY <2>1 DEF EventsInv, AnswerInv, EventsAfterInit
<1>2. EventsInv => EventsAfterInit
  BY DEF EventsInv
<1> QED  BY <1>1, <1>2, EventsStep, HandshakeCorrect, TypeCorrect, PTL DEF Spec

\* The answer goes out when the writer sends it, and in no other step.
LEMMA AnsweredStep ==
  [Next]_vars => \/ answered' = answered
                 \/ /\ answered' = (answered \/ writing = "Init")
                    /\ UNCHANGED <<state, driver>>
<1> SUFFICES ASSUME [Next]_vars, answered' # answered
             PROVE  answered' = (answered \/ writing = "Init") /\ UNCHANGED <<state, driver>>
  OBVIOUS
<1>1. CASE WriteSend
  BY <1>1 DEF WriteSend, WriteEnd, WriterOnly
<1>2. ~ WriterStep
  BY DEF WriterStep, WriteRecv, WriteFails, WriteStops
<1>3. ~ CleanupStep
  BY DEF CleanupStep, CleanupClosing, CleanupAbort, CleanupCancel, CleanupOnClose,
     CleanupClosed, DriverOnly
<1>4. ~ DriverStep
  BY <1>3 DEF DriverStep, DriverInit, DriverInitWatchdog, DriverPing, DriverSpawn, DriverAwait,
     DriverOnly, DriverStreamEnds, DriverCancelled, DriverGraceful, DriverGracefulTimeout,
     SelectOnly
<1>5. ~ (HandlePacket \/ ReadStops)
  BY DEF HandlePacket, ReadAbortInit, ReadInitHandler, ReadAwaitReady, ReadSpawnWatchdog,
     ReadSendInit, ReadAbortReady, ReadOnSessionReady, ReadStops, ReadPlain, ReadTransition,
     Send, SendFails, ChanOnly
<1>6. ~ (ReadEnd \/ ReadEvent \/ ReadDisconnect \/ ReadInit \/ ReadReady)
  BY DEF ReadEnd, ReadEvent, ReadDisconnect, ReadInit, ReadReady, ReadPlain, ReadTransition
<1>7. ~ PingStep /\ \A w \in Watchdogs : ~ WatchdogFires(w)
  BY DEF PingStep, PingWakes, PingSend, PingClosed, WatchdogFires, Send, SendFails, ChanOnly
<1>8. \A c \in CloseCallers : ~ CloseStep(c)
  BY DEF CloseStep, CloseGet, CloseStore, CloseTrySend, TrySend, ChanOnly
<1>9. ~ (Disconnect \/ Emit \/ EmitSend \/ EmitStops \/ TaskReturns \/ UNCHANGED vars)
  BY DEF Disconnect, Emit, EmitSend, EmitStops, RuntimeOnly, TaskReturns, vars, Send, SendFails,
     ChanOnly
<1> QED  BY <1>1, <1>2, <1>4, <1>5, <1>6, <1>7, <1>8, <1>9 DEF Next, Inner

(***************************************************************************)
(* The watchdogs and the ping task.                                        *)
(***************************************************************************)
LEMMA TimerStep == TypeOK /\ HandshakeInv /\ TimerInv /\ [Next]_vars => TimerInv'
<1> SUFFICES ASSUME TypeOK, HandshakeInv, TimerInv, [Next]_vars PROVE TimerInv'
  OBVIOUS
<1>0. /\ watch \in [Watchdogs -> {"none", "sleep", "done"}] /\ Watchdogs = {"init", "ready"}
      /\ closing \in [CloseCallers -> {"idle", "get", "store", "try_send"}]
      /\ CloseCallers = {"init", "ready", "ping", "driver"}
  BY DEF TypeOK, Watchdogs, CloseCallers
<1> USE DEF Past, Ended
\* The same for everybody who leaves the timers, the reader and the driver alone.
<1>a. ASSUME UNCHANGED <<state, driver, reader, readAborted, watch, ping, closing>> PROVE TimerInv'
  BY <1>a DEF TimerInv, HandshakeGuarded, BackgroundStopped
<1>1. CASE WriterStep \/ WriteSend
  BY <1>1, <1>a DEF WriterStep, WriteRecv, WriteSend, WriteFails, WriteStops, WriteEnd, WriterOnly
<1>2. CASE DriverStep
  <2> USE DEF TimerInv, HandshakeGuarded, BackgroundStopped
  <2>0. CASE DriverInit \/ DriverSpawn
    BY <1>0, <2>0 DEF DriverInit, DriverSpawn, DriverOnly, HandshakeInv, StartInv, StartPC, ReaderInv
  <2>1. CASE DriverInitWatchdog \/ DriverPing \/ DriverAwait
    BY <1>0, <2>1 DEF DriverInitWatchdog, DriverPing, DriverAwait, DriverOnly
  <2>2. CASE DriverStreamEnds \/ DriverGraceful \/ DriverGracefulTimeout
    BY <2>2 DEF DriverStreamEnds, DriverGraceful, DriverGracefulTimeout, StreamEnds, SelectOnly
  <2>3. CASE DriverCancelled
    BY <1>0, <2>3 DEF DriverCancelled, SelectOnly
  <2>4. CASE CleanupAbort
    BY <1>0, <2>4 DEF CleanupAbort, AbortLockedTask, DriverOnly
  <2>5. CASE CleanupClosing \/ CleanupCancel \/ CleanupOnClose \/ CleanupClosed
    BY <2>5 DEF CleanupClosing, CleanupCancel, CleanupOnClose, CleanupClosed, DriverOnly
  <2> QED  BY <1>2, <2>0, <2>1, <2>2, <2>3, <2>4, <2>5 DEF DriverStep, CleanupStep
<1>3. CASE HandlePacket \/ ReadStops
  <2> USE DEF TimerInv, HandshakeGuarded, BackgroundStopped, ReaderOnly
  <2>1. CASE ReadAbortInit
    BY <1>0, <2>1 DEF ReadAbortInit, AbortLockedTask, HandshakeInv, ReaderInv
  <2>2. CASE ReadAbortReady
    BY <1>0, <2>2 DEF ReadAbortReady, AbortLockedTask, HandshakeInv, ReaderInv
  <2>3. CASE ReadSpawnWatchdog
    BY <1>0, <2>3 DEF ReadSpawnWatchdog, HandshakeInv, ReaderInv
  <2>4. CASE ReadAwaitReady \/ ReadInitHandler
    BY <2>4 DEF ReadAwaitReady, ReadInitHandler, ReadTransition, ReadPlain, HandshakeInv, ReaderInv
  <2>5. CASE ReadSendInit \/ ReadOnSessionReady
    BY <2>5 DEF ReadSendInit, ReadOnSessionReady, ReadPlain, HandshakeInv, ReaderInv
  <2>6. CASE ReadStops
    BY <2>6 DEF ReadStops, ReadPlain, ReadAwaits
  <2> QED  BY <1>3, <2>1, <2>2, <2>3, <2>4, <2>5, <2>6 DEF HandlePacket
<1>4. CASE ReadEnd \/ ReadEvent \/ ReadDisconnect \/ ReadInit \/ ReadReady
  BY <1>4 DEF TimerInv, HandshakeGuarded, BackgroundStopped, ReadEnd, ReadEvent, ReadDisconnect,
     ReadInit, ReadReady, ReadPlain, ReaderOnly, ReadTransition
<1>5. CASE PingStep
  BY <1>0, <1>5 DEF TimerInv, HandshakeGuarded, BackgroundStopped, PingStep, PingWakes, PingSend,
     PingClosed, BgOnly
<1>6. ASSUME NEW w \in Watchdogs, WatchdogFires(w) PROVE TimerInv'
  BY <1>0, <1>6 DEF TimerInv, HandshakeGuarded, BackgroundStopped, WatchdogFires, Awaited, BgOnly
<1>7. ASSUME NEW c \in CloseCallers, CloseStep(c) PROVE TimerInv'
  BY <1>0, <1>7 DEF TimerInv, HandshakeGuarded, BackgroundStopped, CloseStep, CloseGet, CloseStore,
     CloseTrySend, CloserOnly
<1>8. CASE Disconnect \/ Emit \/ EmitSend \/ EmitStops
  BY <1>8, <1>a DEF Disconnect, Emit, EmitSend, EmitStops, RuntimeOnly
<1>9. CASE TaskReturns \/ UNCHANGED vars
  BY <1>9, <1>a DEF TaskReturns, vars
<1> QED
  BY <1>1, <1>2, <1>3, <1>4, <1>5, <1>6, <1>7, <1>8, <1>9 DEF Next, Inner

LEMMA TimerCorrect == Spec => []TimerInv
<1>1. Init => TimerInv
  BY DEF Init, TimerInv, HandshakeGuarded, BackgroundStopped, Past, Watchdogs, CloseCallers
<1> QED  BY <1>1, TimerStep, HandshakeCorrect, TypeCorrect, PTL DEF Spec

\* The session never waits for a packet of the server without a timer: the
\* watchdog of the stage runs until the packet has changed the state, however
\* the reader's compare-and-swap, the aborts and the watchdog's own check
\* interleave.
THEOREM HandshakeIsGuarded == Spec => []HandshakeGuarded
<1>1. TimerInv => HandshakeGuarded
  BY DEF TimerInv
<1> QED  BY <1>1, TimerCorrect, PTL

\* cleanup() leaves no ping task and no watchdog asleep, except a ready watchdog
\* started by a reader that run_connection aborted without joining it.
THEOREM CleanupStopsBackground == Spec => []BackgroundStopped
<1>1. TimerInv => BackgroundStopped
  BY DEF TimerInv
<1> QED  BY <1>1, TimerCorrect, PTL

=============================================================================
