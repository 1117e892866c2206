SPECIFICATION Spec
CONSTANTS
  c1 = c1
  c2 = c2
  Consumer = {c1, c2}
  Driver = {d1, d2}
  MaxPages = 2
  Page <- MCPage
  PageSize <- MCPageSize
  MaxSize = 1
  History <- MCHistory
INVARIANTS
  ReferencesAreExact
  MemoryIsAccounted
  CompleteConsumerHasEveryPage
  BothCallsMeanFlushing
SYMMETRY DriverSymmetry
CHECK_DEADLOCK FALSE
