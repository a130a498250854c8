CONSTANTS
  Msgs = {m1, m2}
  MsgIDs = {i1}
  HeaderMaps = {h1}
  None = None
  MaxAttempts = 1
SPECIFICATION Spec
INVARIANT DedupOnlyWithMsgID
