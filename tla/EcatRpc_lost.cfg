SPECIFICATION Spec
CONSTANTS
  MaxRequests = 2
  MaxDrops = 1
  Methods = {"download"}
CHECK_DEADLOCK FALSE
INVARIANT NoFalseSuccess
