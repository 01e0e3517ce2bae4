SPECIFICATION HeartbeatSpec
CONSTANTS
  HeartbeatTicks = 10
  PongTicks = 7
  SweepTicks = 4
  RequestTimeouts = {20}
  MaxConsecutiveFailures = 3
  AnswerWithin = 6
  SilentBound = 60
CHECK_DEADLOCK FALSE
PROPERTY DeadDaemonDetected

