SPECIFICATION Spec
CONSTANTS
  NrInodes = 6
  StartIno = 0
  ChunkSize = 5
  ENOMEM = {2, 3}
  StaleLimit = 3
  MaxChanges = 3
  Corrupt = {}
INVARIANTS
  KeptVisitedAlways
