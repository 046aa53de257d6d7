\* Runs one after the other: a failed or killed run is followed by a rerun.
CONSTANTS
  NumRuns = 3
  Overlap = FALSE
  MaxFaults = 2
  Minors <- MCMinors
SPECIFICATION FairSpec
INVARIANTS
  TypeOK
  SecretMatchesCluster
  KubeconfigCurrent
  SuccessMeansInstalled
  NoConfigLeft
PROPERTIES
  ImplementsSeedNode
  Converges
