SPECIFICATION SpecAll
CONSTANTS
  Applications <- MCApplications
  Requests <- MCRequests
  Filters <- MCFilters
  Interceptors <- MCInterceptors
  Admits <- Matches
  Questions <- MCSessions
  Visits = {1, 2, 3}
  Scenarios <- MCScenarios
  Timeout = 2
  MaxTime = 3
  Files <- MCFiles
  Contents = {"a", "b", "long"}
  Size <- MCSize
  Readers = {1, 2}
  Configurations <- MCConfigurations
  MaxWrites = 2
  MaxParts = 3
  DefaultMaxBytes = 2
  MaxInt = 7
INVARIANTS
  FlashDeliveredOnce
CHECK_DEADLOCK FALSE
