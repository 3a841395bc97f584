CONSTANTS
  w1 = w1
  w2 = w2
  c1 = c1
  b1 = b1
  b2 = b2
  one = one
  other = other
  both = both
  N = 2
  Names = {one, other, both}
  Offers <- MCOffers
  Warmers = {w1, w2}
  Callers = {c1}
  Workers = {b1, b2}
  Invalidation = TRUE
  NoOne = NoOne
  MaxVersion = 1
  Changing = {1}
  Fragile = {2}
SPECIFICATION FairSpec
INVARIANTS OneRefresh SnapshotsCurrent StableRoutes
PROPERTIES CacheAdvances BecomesReady WarmupStops
