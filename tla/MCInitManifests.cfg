CONSTANTS
  Malformed = Malformed
  Families = {"ipv4", "ipv6"}
  Sizes <- MCSizes
  Entries <- MCEntries
  GitFiles <- MCGitFiles
  FluxNames <- MCFluxNames
  Fields <- MCFields
  Others <- MCOthers
  Values <- MCValues
  Blank = ""
  Options <- MCOptions
  Repository <- MCRepository
  Manifests <- MCManifests
  MaxRuns = 2
  MaxFaults = 2
SPECIFICATION Spec
INVARIANTS
  TypeOK
  InitUpdatesAll
  PodNetworkApart
PROPERTIES
  OthersUntouched
