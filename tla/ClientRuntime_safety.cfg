SPECIFICATION Spec
CONSTANTS
  Callers = {u1, h1}
  Handlers = {h1}
  Detached = {u1}
  Emitters = {e1}
  QueueSize = 1
  ChannelSize = 2
  MaxSessions = 2
  MaxEvents = 2
INVARIANTS TypeOK OneLiveSession EventsInOrderAtMostOnce DisconnectCanFinish
CHECK_DEADLOCK FALSE
