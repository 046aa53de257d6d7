\* Two commands on repositories whose names end in characters of ".git".
CONSTANTS
  NumCommands = 2
  MaxFaults = 0
  Profiles <- MCLookalikes
SPECIFICATION Spec
PROPERTIES
  OnlyItsOwnFiles
