SPECIFICATION FairSpec
CONSTANTS
  r1 = r1
  r2 = r2
  Conns = {1, 2}
  Rooms = {r1, r2}
  Casts = {b1}
  Operators <- MCOperators
  Limit = 2
  Stalled = {1}
  Movers = {2}
INVARIANTS TypeOK StableMemberReached OutsiderSpared
PROPERTY StallsDelayOnlyThemselves
CHECK_DEADLOCK FALSE
