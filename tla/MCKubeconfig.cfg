\* Runs one after the other, for two clusters that are installed again.
CONSTANTS
  Clusters <- MCClusters
  None = None
  NumRuns = 3
  Overlap = FALSE
  MaxInstalls = 1
  MaxFaults = 1
  Endpoints <- MCEndpoints
SPECIFICATION Spec
INVARIANTS
  TypeOK
  ContextsCoherent
PROPERTIES
  ImplementsContextFile
