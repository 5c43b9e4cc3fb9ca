SPECIFICATION Spec
CONSTANTS
  Frames <- MCFrames
  n80211HeaderLength <- IEEE80211HeaderLength
INVARIANTS
  TypeOK
  WalkMatchesLayout
  VerdictRight
PROPERTY WalkEnds
CHECK_DEADLOCK FALSE
