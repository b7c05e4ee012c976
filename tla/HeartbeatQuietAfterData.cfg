CONSTANTS
  PingInterval = 3
  PongTimeout = 5
  HandlerTime = 2
  Latency = 1
  MaxInbox = 2
  MaxTime = 18
SPECIFICATION Spec
CHECK_DEADLOCK FALSE
INVARIANTS
  PongTimeoutMeansNoPong
