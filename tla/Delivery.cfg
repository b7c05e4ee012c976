CONSTANTS
  e1 = e1
  e2 = e2
  w1 = w1
  w2 = w2
  Events <- TwoEvents
  Messages <- TwiceTheMessage
  Cards <- OnceTheCard
  Workers <- TwoWorkers
  QueueSize = 1
  MaxHandlers = 1
  HandlerFaults <- None
  MayInterruptClose = FALSE
  Nothing = Nothing
SPECIFICATION DeliverySpec
CHECK_DEADLOCK FALSE
INVARIANTS
  DeliveryTypeOK
  OverlapOnlyAfterTimeout
  AckedMeansHandled
PROPERTIES
  EveryFrameAnswered
