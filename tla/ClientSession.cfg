SPECIFICATION FairSpec
CONSTANTS
  Capacity = 3
  Configured = {"init", "on_session_ready", "on_session_close"}
  MaxPings = 1
INVARIANTS TypeOK EventsAfterInit
PROPERTIES NoResurrection HandshakeResolves DisconnectEndsSession BackgroundEnds
CHECK_DEADLOCK FALSE
