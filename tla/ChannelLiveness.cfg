CONSTANTS
  m1 = m1
  m2 = m2
  k1 = k1
  k2 = k2
  w1 = w1
  w2 = w2
  Messages <- TwoMessages
  Cards <- OneCard
  Workers <- TwoWorkers
  QueueSize = 1
  MaxHandlers = 1
  HandlerFaults <- NoFaults
  MayInterruptClose = FALSE
  Nothing = Nothing
SPECIFICATION FairSpec
CHECK_DEADLOCK FALSE
PROPERTIES
  NoEventStartsAfterClose
  CloseReleasesCallers
  EveryCallerAnswered
