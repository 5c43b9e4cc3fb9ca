SPECIFICATION FairSpec
CONSTANTS
  Activities = {a1}
  Windows = {w1, w2}
  Surface <- MCSurface
  a1 = a1
  NoWindow = NoWindow
  NoThread = NoThread
PROPERTIES
  FinalizeCompletes
CHECK_DEADLOCK FALSE
