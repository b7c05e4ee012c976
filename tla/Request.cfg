CONSTANTS
  c1 = c1
  c2 = c2
  Calls <- TwoCalls
  MaxRetries = 1
  MaxTokens = 2
  MaxStray = 1
  Nobody = Nobody
SPECIFICATION Spec
SYMMETRY Symmetry
CHECK_DEADLOCK FALSE
INVARIANTS
  TypeOK
  PostedOnce
  UnretriedAtMostOnce
  UnauthorizedMeansRevoked
