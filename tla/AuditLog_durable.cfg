SPECIFICATION LiveSpec
CONSTANTS
  Clients = {p1, p2}
  NoClient = NoClient
  Capacity = 1
  MaxCommands = 4
INVARIANTS FlushDurable ShutdownLosesNothing
PROPERTIES OperationReturns
CHECK_DEADLOCK FALSE
