SPECIFICATION FairSpec
CONSTANTS
  Paths = {p1}
  Copies = 2
  Requests = {c1}
  Callers = {a1, a2}
INVARIANTS TypeOK StoppedHasNoConnections ServerStoppedIsQuiet
 
CHECK_DEADLOCK FALSE
