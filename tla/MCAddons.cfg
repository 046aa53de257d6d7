CONSTANTS
  Nil = Nil
  Shipped <- MCShipped
  Hosts <- MCHosts
  Manifests <- MCManifests
  Dest <- MCDest
  MaxRuns = 2
  MaxFaults = 2
SPECIFICATION Spec
INVARIANTS
  TypeOK
  ImagesMirrored
  AppliesManifest
  ValidatedSucceeds
  TempDirsOfFailures
