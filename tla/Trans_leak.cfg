SPECIFICATION BothSpec
CONSTANTS
  Buffers = {b1, b2, b3}
  SbBuf = b1
  Inodes = {1, 2}
  Cluster <- OneEach
  NoBuf = NoBuf
  UseBufLock = TRUE
  InitFdblocks = 2
  InitFrextents = 1
  InitRextents = 2
  CounterBits = 4
  MaxRes = 0
  MaxMore = 0
  MaxRefs = 0
  MaxRecur = 1
  MaxOps = 1
  MaxItemOps = 1
  b1 = b1
  b2 = b2
  b3 = b3
INVARIANTS
  FreedDetached
