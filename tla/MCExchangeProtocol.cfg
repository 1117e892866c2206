SPECIFICATION Spec
CONSTANTS
  p1 = p1
  p2 = p2
  Page = {p1, p2}
  PageSize <- MCPageSize
  MaxSize = 2
  MaxPages = 2
  MaxRestarts = 1
INVARIANTS
  ExactlyOnceInOrder
  CompleteMeansAllReceived
  UnreceivedPagesAreKept
  WaitingReaderHasNothingToRead
  SequenceIdsAreValid
PROPERTIES
  ImplementsChannel
CHECK_DEADLOCK FALSE
