SPECIFICATION Spec
CONSTANTS
  Calls = {k1, k2}
  Killers = {u1}
  Scenarios = {{"cancel", "concurrent"}, {"kill", "concurrent"}, {"kill", "fork"}, {"cancel", "timeout", "kill"}}
INVARIANTS NoneEscapes NothingLeft
PROPERTIES NothingWaits
CHECK_DEADLOCK FALSE
