SPECIFICATION LookupSpec
CONSTANTS
  Bundles <- MCBundles
  BatchSize = 2
  Closers = {c1, c2}
  MaxFaults = 2
  Readers = {r1}
  Requests <- MCRequests
  MaxBatch = 2
INVARIANTS
  TypeOK
  ReadersAgree
  NothingLeaks
  ClosedForAll
  LookupsWholeOrFail
PROPERTIES
  CloseReturns
CHECK_DEADLOCK FALSE
