SPECIFICATION FairSpec
CONSTANTS
  Runs = {r1, r2, r3}
  MaxPolls = 1
  NoClient = NoClient
INVARIANTS
  OnlyCleanupsDisturb
  ClientsAreHeld
PROPERTY
  EveryRunEnds
