SPECIFICATION ViewSpec
CONSTANTS
  Masters = {m0, m1}
  None = none
  StartFaults = TRUE
  FirstMaster = m0
  MaxFlight = 2
  MaxOps = 2
  MaxFaults = 1
CHECK_DEADLOCK FALSE
INVARIANTS NothingIsLost
