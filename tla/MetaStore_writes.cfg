SPECIFICATION Spec
CONSTANTS
  Clients = {c1, c2}
  Capacity = 2
  MaxVersion = 3
  Scenarios = {{"flush", "shutdown", "crash", "diskError", "straggler"}, {"flush", "shutdown", "diskError"}, {"flush", "diskError"}}
INVARIANTS FlushDurable ShutdownKeeps
PROPERTIES NothingWaits
CHECK_DEADLOCK FALSE
