SPECIFICATION Spec
CONSTANTS
  stream = stream
  eager = eager
  padded = padded
  bundle = bundle
  Builders = {stream, eager, padded}
  BundleIds = {bundle}
  Paths <- MCPaths
  IdOf <- MCIdOf
  PathOf <- MCPathOf
  Mode <- MCMode
  Trim <- MCTrim
  MaxAttempts = 2
  MaxFaults = 1
  MaxAccidents = 1
INVARIANTS
  TypeOK
  PublishedComplete
  LeftoversAccounted
PROPERTIES
  IdenticalBuildReuses
  StoreImplemented
CHECK_DEADLOCK FALSE
