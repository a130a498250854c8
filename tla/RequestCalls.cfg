CONSTANTS
  Requests = {q1, q2}
  Workers = {w1, w2}
  RequestTimeout = TRUE
  FaultSets <- OneSideFails
SPECIFICATION FairSpec
INVARIANTS
  TypeOK
  NoFalseSuccess
  HandledAtMostOnce
  ReplyErrorIsHandlerError
PROPERTIES
  CallReturns
  ImplementsCall
  ReceivedIsHandled
