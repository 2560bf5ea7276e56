SPECIFICATION FairSpec
CONSTANTS
  server = server
  pool = pool
  t1 = t1
  t2 = t2
  Hook = {server, pool}
  Meta <- MCMeta
  Starters = {server, pool}
  Stoppers = {server, pool}
  Closers = {pool}
  HookDeps <- MCHookDeps
  Thread = {t1, t2}
  Calls <- AnyCall
  MaxCalls = 4
INVARIANTS
  EventsStandForChanges
  CloseDoesAll
PROPERTIES
  DrivesManager
  CallsReturn
CHECK_DEADLOCK FALSE
