SPECIFICATION Spec
CONSTANTS
  home = home  a = a  b = b  js = js  away = away
  Urls = {home, a, b, js, away}
  Seeds <- HomeTwice
  SameHost <- OnHost
  ScriptUrls = {js}
  Sites <- AllSites
  PageLimits = {2, 9}
  DepthLimits = {1, 2}
INVARIANTS
  WalkIsBounded
  CrawlIsComplete
