\* One run from a Git repository, without faults or edits.
CONSTANTS
  v1 = v1
  old = old
  authn = authn
  authz = authz
  broken = broken
  home = home
  tmpdir = tmpdir
  None = None
  NumRuns = 1
  MaxEdits = 0
  MaxFaults = 0
  Clusters <- MCClusters
  Machines <- MCMachines
  Versions <- MCVersions
  Supported <- MCSupported
  Secrets <- MCSecrets
  Broken <- MCBroken
  PemKeys <- MCPemKeys
  KeyPaths <- MCKeyPaths
  Flags <- MCFlags
SPECIFICATION Spec
INVARIANTS
  CloneOnlyDuringCommand
