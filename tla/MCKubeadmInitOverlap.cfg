\* Two operators run wksctl against the same seed node at the same time.
CONSTANTS
  NumRuns = 2
  Overlap = TRUE
  MaxFaults = 1
  Minors <- MCMinor17
SPECIFICATION FairSpec
INVARIANTS
  TempFilesRemoved
PROPERTIES
  AppliesOwnManifest
  EveryRunReturns
