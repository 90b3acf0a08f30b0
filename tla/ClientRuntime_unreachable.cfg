SPECIFICATION Spec
CONSTANTS
  Callers = {u1, h1}
  Handlers = {h1}
  Detached = {}
  Emitters = {}
  QueueSize = 1
  ChannelSize = 1
  MaxSessions = 1
  MaxEvents = 1
INVARIANTS NeverUnreachable
CHECK_DEADLOCK FALSE
