SPECIFICATION Spec
CONSTANTS
  NAG = 2
  Chunks <- TwoGroups
  Dirs <- OneDir
  Bmap <- OneBmap
  Blocks = {2, 4, 18, 19, 20, 21, 23, 25}
  Linear <- FourteenEach
  NoBlock = NoBlock
  InitCached = {2, 4}
  PF_THREAD_COUNT = 2
  MaxQueue = 1
  IO_THRESHOLD = 2
  pf_batch_fsbs = 2
INVARIANTS
  QueueDrained
  InodesCounted
  OnePrefetch
  FreedUnused

  
CHECK_DEADLOCK FALSE
