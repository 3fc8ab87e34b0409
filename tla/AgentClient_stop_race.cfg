SPECIFICATION Spec
CONSTANTS
  Urls = {u1, u2}
  BadUrls = {}
  MaxClicks = 2
  Scenarios = {{"disconnect", "update"}}
PROPERTIES StaysDisconnected
CHECK_DEADLOCK FALSE
