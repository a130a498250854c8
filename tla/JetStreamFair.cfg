CONSTANTS
  Msgs = {m1, m2}
  Workers = {w1, w2}
  MaxDeliver = 2
  DLQEnabled = TRUE
  BufferCap = 1
  DeliveryBound = 3
  FaultSets <- OneTrouble
SPECIFICATION FairSpec
INVARIANTS
  NoConcurrentHandling
  OneOutcome
  SlownessLosesNothing
PROPERTIES
  EverythingSettles
  EventualOutcome
