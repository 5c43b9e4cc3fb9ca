SPECIFICATION FairSpec
CONSTANTS
  Activities = {a1, a2}
  Windows = {w1, w2}
  Surface <- MCSurface
  a1 = a1
  NoWindow = NoWindow
  NoThread = NoThread
INVARIANTS
  TypeOK
  ThreadRemovedUnlessOvertaken
  WindowRefsBalanced
  InitializedAfterPipeline
  InitializationReported
PROPERTIES
  StopCompletes
CHECK_DEADLOCK FALSE
