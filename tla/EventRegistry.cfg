SPECIFICATION Spec
CONSTANTS
  Callers = {u1, u2}
  Events = {ev}
  Types = {"unit", "text"}
  IdSpace = 2
  MaxOns = 3
  MaxPackets = 2
INVARIANTS TypeOK NoEmptyEntryLeak RemovedHandlersSilent StableHandlersRun
CHECK_DEADLOCK FALSE
