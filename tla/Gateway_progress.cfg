SPECIFICATION MCSpec
CONSTANTS
  Terminals = {t1}
  Conns = {c1, c2}
  Calls = {k1}
  NoTerminal = NoTerminal
  NoConn = NoConn
  Scenarios <- LiveWorlds
  Viewers = {v1}
  MaxStarts = 2
  MaxConns = 2
  MaxScreens = 2
  Views = {{"close", "restStart"}, {"close", "restStop"}, {"restStart", "restStop"}, {"reconnect", "restStart"}, {"user", "restStart"}, {"change"}}
INVARIANTS OneStream
PROPERTIES NothingHangs FirstPicture StreamsSettle
CHECK_DEADLOCK FALSE
