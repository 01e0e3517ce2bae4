SPECIFICATION OSpec
CONSTANTS
  Readers = {r1}
  Writers = {}
  Inputs = {i1, i2}
  Outputs = {o1}
  OutOfBounds = {e1}
  LeftOver <- Zeroed
  MaxAttempts = 4
  MaxCycle = 3
  MaxWrites = 0
  OrderedLoads = FALSE
INVARIANT NoTornRead
