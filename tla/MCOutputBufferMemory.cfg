SPECIFICATION FairSpec
CONSTANTS
  Driver = {d1, d2, d3}
  Size = {1, 2}
  LargestPage = 2
  maxBufferedBytes = 2
INVARIANTS
  PoolIsToldOfHeldPages
  OvershootIsBounded
  WaitingDriverWillBeWoken
PROPERTIES
  WaitingDriverIsWoken
CHECK_DEADLOCK FALSE
