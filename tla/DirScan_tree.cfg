SPECIFICATION Spec
CONSTANTS
  d0 = d0
  d1 = d1
  d2 = d2
  d3 = d3
  d4 = d4
  Dirs = {d0, d1, d2, d3, d4}
  Root = d0
  File = File
  Entries <- Tree
  OtherDev = {d2}
  Workers = {w1, w2, w3}
  Main = Main
  NoDir = NoDir
INVARIANTS
  EveryDirVisited
  DirsCounted
  QuietAfterWait
PROPERTIES
  ScanReturns
