SPECIFICATION FairSpec
CONSTANTS
  Workers = {w1, w2}
  Clients = {c1, c2}
  Items = {1, 2, 3, 4}
  NoItem = 0
  Caps = {0, 1}
  Kids <- OneParent
INVARIANTS
  TypeOK
  NoSleeperWhileQueued
  DrainedAtTerminate
PROPERTIES
  RunsOnce
  AddReturns
  ImplementsPool
  TerminateReturns
