SPECIFICATION BothSpec
CONSTANTS
  Buffers = {b1, b2}
  SbBuf = b1
  Inodes = {1, 2}
  Cluster <- AllInOne
  NoBuf = NoBuf
  UseBufLock = TRUE
  InitFdblocks = 2
  InitFrextents = 1
  InitRextents = 2
  CounterBits = 4
  MaxRes = 2
  MaxMore = 1
  MaxRefs = 1
  MaxRecur = 1
  MaxOps = 5
  MaxItemOps = 2
  b1 = b1
  b2 = b2
  b3 = b3
INVARIANTS
  RefsBalanced
  LockHeld
  ReservationConserved

  
  
