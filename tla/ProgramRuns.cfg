CONSTANTS
  Programs <- AllPrograms
  N = 2
  MaxDeliver = 2
  MaxRuns = 2
  MaxDrops = 1
SPECIFICATION FairSpec
INVARIANTS
  TypeOK
  DoneMeansHandled
PROPERTIES
  RunEnds
  ServiceHandlesAll
