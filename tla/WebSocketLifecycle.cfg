CONSTANTS
  s1 = s1
  s2 = s2
  Sockets <- TwoSockets
  NoSocket = NoSocket
  MaxOutage = 3
  MaxExponent = 3
  CloseMayFail = TRUE
  MayCancelRunner = TRUE
SPECIFICATION FairSpec
CHECK_DEADLOCK FALSE
INVARIANTS
  TypeOK
  NoSocketLost
  StateMatchesConnection
  BackoffMatchesOutage
  CloseIsFinalWhenSettled
PROPERTIES
  NoAttemptAfterClose
  CloseEndsRunForever
  Recovers
