CONSTANTS
  spec = spec
  containers = containers
  image = image
  name = name
  None = None
  Query <- MCQuery
  Keys <- MCKeys
  MaxTokens = 13
  MaxDepth = 5
SPECIFICATION Spec
INVARIANTS
  TypeOK
  CollectsMatches
  NoPanic
