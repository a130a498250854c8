CONSTANTS
  MaxRoutes = 2
  Workers = {w1, w2}
SPECIFICATION Spec
INVARIANT NoSilentRouteFailure
