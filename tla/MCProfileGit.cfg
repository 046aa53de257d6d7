\* Three commands on repositories of different paths, with faults and kills.
CONSTANTS
  NumCommands = 3
  MaxFaults = 1
  Profiles <- MCProfiles
SPECIFICATION Spec
INVARIANTS
  TypeOK
  GoodCommandSucceeds
PROPERTIES
  CommandsDeliver
  UserWorkOnlyInHelmCommit
  OnlyItsOwnFiles
