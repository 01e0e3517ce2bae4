SPECIFICATION TimersSpec
CONSTANTS
  HeartbeatTicks = 10
  PongTicks = 7
  SweepTicks = 4
  RequestTimeouts = {20, 40}
  MaxConsecutiveFailures = 3
  AnswerWithin = 18
  SilentBound = 60
  ConnectTimeout = 10
  RetryTicks = 5
  FirstInterval = 2
  MaxInterval = 30
  MaxConnectAttempts = 3
  UserConnects = 3
  NetChanges = 4
CHECK_DEADLOCK FALSE
INVARIANTS NoFalseAlarm NeverStranded AttemptsAreWatched
PROPERTY Recovers
