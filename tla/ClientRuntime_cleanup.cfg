SPECIFICATION Spec
CONSTANTS
  Callers = {u1}
  Handlers = {}
  Detached = {}
  Emitters = {e1}
  QueueSize = 1
  ChannelSize = 1
  MaxSessions = 1
  MaxEvents = 1
INVARIANTS DisconnectCleansUp
CHECK_DEADLOCK FALSE
