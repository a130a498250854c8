CONSTANTS
  MaxRoutes = 2
  Workers = {w1}
SPECIFICATION FairSpec
PROPERTIES
  NoGoroutineLeak
  StopsOnCause
  ImplementsLifecycle
