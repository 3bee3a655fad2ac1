SPECIFICATION Spec
CONSTANTS
  Threads = {t1, t2, t3}
  NrCounters = 3
  SizeMax = 7
  MaxAdds = 2
SYMMETRY ThreadSymmetry
INVARIANTS
  OwnSlot
  NothingLost
  ReadInBetween
