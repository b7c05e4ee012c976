CONSTANTS
  m1 = m1
  m2 = m2
  k1 = k1
  k2 = k2
  w1 = w1
  w2 = w2
  Messages <- OneMessage
  Cards <- TwoCards
  Workers <- TwoWorkers
  QueueSize = 2
  MaxHandlers = 2
  HandlerFaults <- AllFaults
  MayInterruptClose = TRUE
  Nothing = Nothing
SPECIFICATION Spec
SYMMETRY Symmetry
CHECK_DEADLOCK FALSE
INVARIANTS
  TypeOK
  NoOrphanedCaller
  DrainedLeavesNothing
  OkMeansHandled
  HandledByOne
PROPERTIES
  ImplementsDispatcher
