SPECIFICATION ServedSpec
CONSTANTS
  any = any
  good = good
  Calls = {any, good}
  InputsOf <- MCInputsOf
  BatchSize = 2
  PageSize = 2
  MaxFaults = 1
  MaxAccidents = 1
  Queries <- MCQueries
  Filters <- MCFilters
  Limits = {1, 2}
INVARIANTS
  TypeOK
  PublishedWhole
  
  InspectionDecides
  SearchIsExact
CHECK_DEADLOCK FALSE
