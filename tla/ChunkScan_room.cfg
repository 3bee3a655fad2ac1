SPECIFICATION Spec
CONSTANTS
  NrInodes = 5
  StartIno = 0
  ChunkSize = 4
  ENOMEM = {2, 3}
  StaleLimit = 2
  MaxChanges = 1
  Corrupt = {0}
INVARIANTS
  RoomLeftAlways
