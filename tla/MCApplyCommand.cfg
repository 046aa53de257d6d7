\* Two runs, from one machine or from two, with edited manifests and failures.
CONSTANTS
  v1 = v1
  old = old
  authn = authn
  authz = authz
  broken = broken
  home = home
  tmpdir = tmpdir
  None = None
  NumRuns = 2
  MaxEdits = 1
  MaxFaults = 1
  Clusters <- MCClusters
  Machines <- MCMachines
  Versions <- MCVersions
  Supported <- MCSupported
  Secrets <- MCSecrets
  Broken <- MCBroken
  PemKeys <- MCPemKeys
  KeyPaths <- MCKeyPaths
  Flags <- MCFlags
SPECIFICATION Spec
INVARIANTS
  TypeOK
  NothingLeftByReturn
  PemFilesPrivate
  InstalledAsValidated
  InstalledAsAsked

  
