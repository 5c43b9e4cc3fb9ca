SPECIFICATION Spec
CONSTANTS
  D = 2
  F = 1
  B = 2
  RestartFactor = 1
  MaxBlock = 3
  MaxFlushed = 2
  MaxRestarts = 1
  Sessions = {s1}
INVARIANTS
  TypeOK
  LatestBlocksBuffered
PROPERTIES
  OutputInOrder
  IntactPacketKept
  IntactPacketWritten
  UndamagedBlockClean
  StreamSpec
