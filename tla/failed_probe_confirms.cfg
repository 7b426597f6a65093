SPECIFICATION Spec
CONSTANTS
  r1 = r1  r2 = r2  s1 = s1  s2 = s2  t1 = t1
  e1 = e1  e2 = e2  e3 = e3  f1 = f1  f2 = f2  u0 = u0  u1 = u1  u2 = u2
  Runs = {r1}
  Scans = {s1}
  Targets = {t1}
  ScanOf <- OneScan
  TargetOf <- AllOneTarget
  MayExpire = {}
  Engines = {e1}
  Bound = {e1}
  Plans <- AuditPlan
  Fps = {f1}
  Finds <- AnyFinds
  EngineConfs = {"tentative"}
  KindOf <- HeaderAndReflection
  Urls = {u0, u1, u2}
  UrlOf <- UrlPerFinding
  BaseUrls = {u0}
  InScope = {u0, u1, u2}
  MaxDiscovered = 2
  MaxFedSeeds = 2
  ValidateFindings = TRUE
  AiMayRaise = FALSE
  MaxLosses = 0
INVARIANT
  ConfirmedWasReproduced
