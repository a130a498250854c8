CONSTANTS
  Msgs = {m1}
  Workers = {w1}
  MaxDeliver = 2
  DLQEnabled = TRUE
  BufferCap = 1
  DeliveryBound = 3
  FaultSets = {{"panic"}}
SPECIFICATION Spec
INVARIANT NoMessageLost
