SPECIFICATION FairSpec
CONSTANTS
  Callers = {u1}
  Handlers = {}
  Detached = {}
  Emitters = {}
  QueueSize = 1
  ChannelSize = 1
  MaxSessions = 1
  MaxEvents = 1
PROPERTIES DisconnectReturns
CHECK_DEADLOCK FALSE
