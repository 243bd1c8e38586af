SPECIFICATION Spec
CONSTANTS
  t1 = t1
  t2 = t2
  i1 = i1
  i2 = i2

  Tasks <- TwoTasks
  Ids <- TwoIds
INVARIANTS TypeOK PoolExact UndisturbedListing
PROPERTIES UndisturbedDelete MarkedAreSwept
CHECK_DEADLOCK FALSE
