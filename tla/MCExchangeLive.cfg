SPECIFICATION LiveSpec
CONSTANTS
  p1 = p1
  p2 = p2
  Page = {p1}
  PageSize <- MCPageSize
  MaxSize = 2
  MaxPages = 2
  MaxRestarts = 0
PROPERTIES
  ExchangeEnds
CHECK_DEADLOCK FALSE
