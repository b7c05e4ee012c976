CONSTANTS
  s1 = s1
  s2 = s2
  Sockets <- TwoSockets
  NoSocket = NoSocket
  MaxOutage = 4
  MaxExponent = 2
  CloseMayFail = FALSE
  MayCancelRunner = FALSE
SPECIFICATION Spec
CHECK_DEADLOCK FALSE
INVARIANTS
  RetriesUntilClosed
