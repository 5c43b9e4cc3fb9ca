SPECIFICATION Spec
CONSTANTS
  MaxSessions = 2
  Values = {2, 5}
  FirstValue = 2
  Malformed = Malformed
  Nothing = Nothing
  Gauge = "compass"
  Unit = 3
  smoothScale = 18
  smoothThreshold = 9
  Slowness = 5
INVARIANTS
  TypeOK
PROPERTIES
  ShorterWay
  DisplayFollowsDrone
CHECK_DEADLOCK FALSE
