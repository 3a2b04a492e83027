SPECIFICATION FairSpec
CONSTANTS
  Sweep <- SweepOf
  Items = 4
  Ops = 2
  Blocks = {1, 2, 3, 4}
  CacheSize = 2
  RoundTrips = 3
  Policies = {"Lazy", "EagerTouch", "MapPopulate", "Adaptive"}
  Pages = 3
  PageSize = 2
  Watermark = 1
  Marks = {0, 1, 3, 9}
  WarmupPages = 1
INVARIANTS WorkTimed BlocksAccounted TurnsTaken TouchesMapped PrefaultedTouched LatencyTells
PROPERTIES StaysAhead CallsReturn
CHECK_DEADLOCK FALSE
