SPECIFICATION Spec
CONSTANTS
  Terminals = {t1}
  Conns = {c1, c2}
  Calls = {k1}
  NoTerminal = NoTerminal
  NoConn = NoConn
  Scenarios <- Worlds
SYMMETRY Symmetry
INVARIANTS PendingOwned
PROPERTIES ImplementsToolCalls OfflineHasCause
CHECK_DEADLOCK FALSE
