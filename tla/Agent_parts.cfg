SPECIFICATION MCSpec
CONSTANTS
  Urls = {u1}
  BadUrls = {bad}
  MaxClicks = 3
  Scenarios = {{"disconnect", "reconnect", "drop"}, {"disconnect", "reconnect", "update", "drop"}}
  c1 = c1  c2 = c2
  None = None
  CacheSize = 3
  Order <- MCOrder
  Clients = {c1, c2}
  Worlds <- MCWorlds
  Shots <- MCShots
  Glows <- MCGlows
INVARIANTS OneLoop ClicksWhatWasMeant HeldHasCause DiffTells MarksReach MarksCover
PROPERTIES StopsForGood
CHECK_DEADLOCK FALSE
