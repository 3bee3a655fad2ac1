SPECIFICATION Spec
CONSTANTS
  Items = {i1, i2, i3}
  Types = {attr, free}
  TypeOf <- ItemTypes
  MaxItems <- Limits
  GroupOf <- ItemGroups
  Groups = 2
  Barrier = Barrier
  MaxSize = 2
  MaxSpawn = 2
  MaxBarriers = 1
  i1 = i1
  i2 = i2
  i3 = i3
  attr = attr
  free = free
INVARIANTS
  ItemsAccounted
  NewWorkFirst
  GroupOrder
PROPERTIES
  LockOrder
  OnlyPausedRemain
  FinishReturns
