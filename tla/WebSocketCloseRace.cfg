CONSTANTS
  s1 = s1
  s2 = s2
  Sockets <- TwoSockets
  NoSocket = NoSocket
  MaxOutage = 3
  MaxExponent = 3
  CloseMayFail = FALSE
  MayCancelRunner = FALSE
SPECIFICATION Spec
CHECK_DEADLOCK FALSE
INVARIANTS
  CloseIsFinal
