CONSTANTS
  c1 = c1
  c2 = c2
  c3 = c3
  Calls <- ThreeCallers
  Again <- OneCaller
  Skew = 1
  Lifetimes <- Lifetime
  MaxLatency = 1
  MaxTokens = 3
  MaxTime = 2
  Nobody = Nobody
SPECIFICATION FairSpec
CHECK_DEADLOCK FALSE
INVARIANTS
  TypeOK
  FreshIsValid
  ForcedGetsAnother
PROPERTIES
  ReturnsValidToken
  ImplementsTokenService
  EveryCallEnds
