SPECIFICATION Spec
CONSTANTS
  stream = stream
  eager = eager
  padded = padded
  bundle = bundle
  Builders = {padded}
  BundleIds = {bundle}
  Paths <- MCPaths
  IdOf <- MCIdOf
  PathOf <- MCPathOf
  Mode <- MCStreamMode
  Trim <- MCTrim
  MaxAttempts = 2
  MaxFaults = 0
  MaxAccidents = 0
PROPERTIES
  IdenticalBuildReuses
CHECK_DEADLOCK FALSE
