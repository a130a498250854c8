CONSTANTS
  Msgs = {m1, m2}
  MsgIDs = {i1, i2}
  HeaderMaps = {h1}
  None = None
  MaxAttempts = 2
SPECIFICATION Spec
SYMMETRY Symmetry
INVARIANTS
  TypeOK
  RetryStoresOnce
  ResultIsStored
