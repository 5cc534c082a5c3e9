SPECIFICATION FairSpec
CONSTANTS
  Tasks = {t1, t2}
  Events <- TwoEvents
  Capacity = 1
  MaxFaults = 2
INVARIANTS
  ToldInOrder
  NothingQueuedIsLost
PROPERTY
  BothEnd
CHECK_DEADLOCK FALSE
