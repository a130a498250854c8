CONSTANTS
  Names = {"n"}
  Delivers <- SmallDelivers
  Waits <- SmallWaits
  Msgs = {m1, m2}
  Workers = {w1, w2}
SPECIFICATION RoutesSpec
INVARIANTS
  
  StartableAccepted
  TypeOK
  BooksBalance
  GaugeCountsHandlers
  ScrapeConsistent
  QueueSharesWork
PROPERTY ReceivedIsHandled
