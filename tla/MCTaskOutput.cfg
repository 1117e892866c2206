SPECIFICATION FairTaskSpec
CONSTANTS
  c1 = c1
  Consumer = {c1}
  Driver = {d1, d2}
  MaxPages = 1
  Page <- MCPage
  PageSize <- MCPageSize
  MaxSize = 1
  History <- MCHistory
INVARIANTS
  FinishedTaskSucceeded
  CompleteOrNotSuccessful
PROPERTIES
  TaskEnds
CHECK_DEADLOCK FALSE
