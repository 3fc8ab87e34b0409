SPECIFICATION LiveSpec
CONSTANTS
  Viewers = {v1}
  MaxStarts = 1
  MaxConns = 1
  MaxScreens = 1
  Scenarios = {{"close"}}
PROPERTIES UnwatchedStops
CHECK_DEADLOCK FALSE
