SPECIFICATION FairSpec
CONSTANTS
  app = app
  config = config
  store = store
  helper = helper
  left = left
  right = right
  ping = ping
  pong = pong
  Bean = {app, config, store, helper, left, right, ping, pong}
  Singletons = {app, config, store, left, right, ping, pong}
  DependsOn <- MCDependsOn
  FactoryDeps <- MCFactoryDeps
  InjectDeps <- MCInjectDeps
  AllowCircular = TRUE
  Thread = {t1, t2}
  Roots = {app, store, left, ping}
  MaxCalls = 3
  MaxFaults = 2
INVARIANTS
  OneCreator
  DeeplyInjected
PROPERTIES
  DependsOnFirst
  ImplementsScope
  GetReturns
CHECK_DEADLOCK FALSE
