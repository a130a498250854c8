CONSTANTS
  MaxRoutes = 1
  Workers = {w1, w2}
SPECIFICATION FairSpec
PROPERTY FailFast
