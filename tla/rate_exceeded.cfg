SPECIFICATION Spec
CONSTANTS
  c1 = c1  c2 = c2  c3 = c3  inside = inside  outside = outside
  Fetchers = {c1}
  Urls = {inside, outside}
  InScope = {inside}
  Interval = 2
  Capacity = 4
  Concurrency = 1
  MaxAge = 4
  MeterRate = 1
  MeterBurst = 4
INVARIANTS
  WithinMeter
