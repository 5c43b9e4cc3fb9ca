SPECIFICATION Spec
CONSTANTS
  MaxSessions = 1
  Values = {0, 365}
  FirstValue = 0
  Malformed = Malformed
  Nothing = Nothing
  Gauge = "throttle"
  Unit = 20
  smoothScale = 60
  smoothThreshold = 18
  Slowness = 20
PROPERTY DisplayFollowsDrone
CHECK_DEADLOCK FALSE
