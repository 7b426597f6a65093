SPECIFICATION FairSpec
INVARIANTS
  LeftoverIsAContainer
  ResultsAreOfEndedRuns
PROPERTY
  RunEndsUnlessForked
