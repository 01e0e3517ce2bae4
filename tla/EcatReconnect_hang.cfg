SPECIFICATION Spec
CONSTANTS
  ConnectTimeout = 10
  RetryTicks = 5
  FirstInterval = 2
  MaxInterval = 30
  MaxConnectAttempts = 3
  UserConnects = 1
  NetChanges = 1
CHECK_DEADLOCK FALSE
INVARIANT HangingConnectAborted

