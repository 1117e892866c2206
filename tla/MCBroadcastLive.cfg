SPECIFICATION FairSpec
CONSTANTS
  c1 = c1
  c2 = c2
  Consumer = {c1, c2}
  Driver = {d1}
  MaxPages = 1
  Page <- MCPage
  PageSize <- MCPageSize
  MaxSize = 1
  History <- MCHistory
PROPERTIES
  BufferFinishes
CHECK_DEADLOCK FALSE
