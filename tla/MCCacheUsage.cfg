SPECIFICATION Spec
CONSTANTS
  first = first
  second = second
  oak = oak
  maple = maple
  Calls = {first, second}
  Inputs = {oak, maple}
  Requests <- MCRequests
  Dimensions = {1, 2}
  Workers = 2
  BatchSize = 2
  Budget = 3
  MaxRetries = 1
SYMMETRY MCSymmetry
INVARIANTS
  BilledUsageIsReturned
CHECK_DEADLOCK FALSE
