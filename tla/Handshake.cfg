SPECIFICATION Spec
CONSTANTS
  Capacity = 1
  Closers = {c1}
  Configured = {"on_ready"}
  Window = 1
  MaxTroubles = 2
INVARIANTS ClientReadyMeansServerRegistered EndsTogether
PROPERTY Agrees
CHECK_DEADLOCK FALSE
