SPECIFICATION Spec
CONSTANTS
  t1 = t1
  t2 = t2
  Takers <- MCTwo
  Caps <- MCCaps
  Masks <- MCMasks
  ExFits <- MCFits
  MaxWrites = 3
CHECK_DEADLOCK FALSE
INVARIANTS
  CombinedInOrder
  StreamsInOrder
  NothingLost
