\* Two runs at the same time.
CONSTANTS
  Clusters <- MCClusters
  None = None
  NumRuns = 2
  Overlap = TRUE
  MaxInstalls = 0
  MaxFaults = 0
  Endpoints <- MCEndpoints
SPECIFICATION Spec
PROPERTIES
  MergedWithExistingFile
