SPECIFICATION FairSpec
CONSTANTS
  c1 = c1  c2 = c2  c3 = c3  inside = inside  outside = outside
  Fetchers = {c1, c2, c3}
  Urls = {inside, outside}
  InScope = {inside}
  Interval = 2
  Capacity = 4
  Concurrency = 1
  MaxAge = 4
  MeterRate = 2
  MeterBurst = 6
INVARIANTS
  WithinMeter
  HandoversAreExact
PROPERTY
  EveryFetchReturns
