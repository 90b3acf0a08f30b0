SPECIFICATION FairSpec
CONSTANTS
  Capacity = 1
  Closers = {c1}
  Emitters = {e1}
  Configured = {"init_request", "init_response", "middleware", "on_connect"}
INVARIANTS TypeOK ReadyPacketMeansRegistered RemovedStaysRemoved
PROPERTIES NoResurrection HandshakeResolves ClosingWaitsOnlyForSocket DetachedTasksEnd
CHECK_DEADLOCK FALSE
