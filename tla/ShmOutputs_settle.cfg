SPECIFICATION OSpec
CONSTANTS
  Readers = {}
  Writers = {w1}
  Inputs = {i1}
  Outputs = {o1, o2}
  OutOfBounds = {e1}
  LeftOver <- Zeroed
  MaxAttempts = 1
  MaxCycle = 4
  MaxWrites = 1
  OrderedLoads = TRUE
INVARIANT WritesSettle
CHECK_DEADLOCK FALSE
