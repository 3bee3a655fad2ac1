SPECIFICATION Spec
CONSTANTS
  NrInodes = 5
  StartIno = 1
  ChunkSize = 3
  ENOMEM = {2}
  StaleLimit = 2
  MaxChanges = 2
  Corrupt = {2}
INVARIANTS
  KeptVisited
  RoomLeft
  
PROPERTIES
  ScanEnds
