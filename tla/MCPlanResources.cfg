\* Two runs of the plan, while a second node joins at any moment.
CONSTANTS
  NumRuns = 2
  MaxFaults = 1
  ConfigMaps = {"tls"}
  Addons <- MCAddons
  Manifests <- MCManifests
  Nodes = {"seed", "worker"}
  Seed = "seed"
SPECIFICATION FairSpec
INVARIANTS
  TypeOK
  ReturnsForAReason
  OnlySeedAnnotated
PROPERTIES
  HangsOnlyInWait
